---- MODULE Spec2Model ----
(***************************************************************************)
(* Model of the account stores of the NetBird management server (netbird   *)
(* 0.27.7): the file store, management/server/file_store.go, and the       *)
(* sqlite store, sqlite_store.go; and of the policies handler of its HTTP  *)
(* API, management/server/http/policies_handler.go.                        *)
(*                                                                         *)
(* The file store keeps a map accountID -> Account and seven secondary     *)
(* index maps in memory, and writes the account map to one file.  Its      *)
(* methods run under FileStore.mux, so each method is one atomic action;   *)
(* MuxSpec looks at the mutex itself.  The sqlite store keeps one table    *)
(* per entity type; db maps each table to its rows by primary key.         *)
(*                                                                         *)
(* Spec is the file store under SaveAccount, DeleteAccount and the         *)
(* lookups; LifeSpec adds the updates in place, the installation ID, Close *)
(* and restarts; LockSpec adds callers that take the advisory locks of the *)
(* file store; SqliteLockSpec is the advisory locks of the sqlite store;   *)
(* MuxSpec is callers that run methods of the file store concurrently;     *)
(* MigrationSpec is the start-up on store files of earlier versions;       *)
(* EngineSpec is a file store and a sqlite store that receive the same     *)
(* calls; ConvertSpec is the conversion of a store to the other engine;    *)
(* MetricsSpec is the file store with a metrics collector; LiveSpec is     *)
(* callers that wait for the locks, under fairness; AtomicSpec is lookups  *)
(* while SaveAccount and DeleteAccount run in two steps; DomainSpec is the *)
(* store over its life with accounts that own domains; HttpSpec is one     *)
(* request to the policies handler and its response.                       *)
(*                                                                         *)
(* Strings that the code converts with strings.ToUpper, strings.ToLower or *)
(* strconv.Atoi (setup key ids, domains, ports) are sequences of character *)
(* codes, so that the conversions are computed; all other strings are      *)
(* opaque TLA+ strings.                                                    *)
(***************************************************************************)
EXTENDS Integers, Sequences, FiniteSets, TLC

VARIABLES
    Accounts,                 \* FileStore.Accounts: accountID -> Account
    SetupKeyID2AccountID,     \* upper-cased setup key id -> accountID
    PeerKeyID2AccountID,      \* peer public key -> accountID
    PeerID2AccountID,         \* peer ID -> accountID
    UserID2AccountID,         \* user ID -> accountID
    PrivateDomain2AccountID,  \* domain -> accountID
    HashedPAT2TokenID,        \* hashed token -> token ID
    TokenID2UserID,           \* token ID -> user ID
    disk,                     \* the account map as last written to storeFile
    ioFailures,               \* number of failed writes of storeFile so far
    profile,                  \* which collection of the accounts the client varies
    aliased,                  \* IDs of the stored accounts whose object a caller holds too
    last,                     \* the last call: method, returned error, logged warning
    InstallationID,           \* FileStore.InstallationID
    diskInstallationID,       \* the installation ID as last written to storeFile
    callers,                  \* where each caller is in taking or holding an advisory lock
    accountLocks,             \* accountLocks: accountID -> the mutex registered for it
    mux,                      \* FileStore.mux: where each caller is in a method of the store
    db,                       \* SqliteStore.db: the rows of each table
    dbLast,                   \* the last call of the sqlite store: method, error, value
    metrics,                  \* FileStore.metrics and what the last call reported to it
    http                      \* a request to the policies handler, and what came of it

vars == <<Accounts, SetupKeyID2AccountID, PeerKeyID2AccountID, PeerID2AccountID,
          UserID2AccountID, PrivateDomain2AccountID, HashedPAT2TokenID,
          TokenID2UserID, disk, ioFailures, profile, aliased, last,
          InstallationID, diskInstallationID, callers, accountLocks, mux, db, dbLast,
          metrics, http>>

indices == <<SetupKeyID2AccountID, PeerKeyID2AccountID, PeerID2AccountID,
             UserID2AccountID, PrivateDomain2AccountID, HashedPAT2TokenID,
             TokenID2UserID>>

\* the advisory lock registry and its callers
advisory == <<callers, accountLocks>>

\* the sqlite store
sqlite == <<db, dbLast>>

\* what belongs to neither store nor to the callers of FileStore.mux
outside == <<metrics, http>>

\* what a call of a method of the stores leaves alone
apart == <<mux, outside>>

\* what a call of a file store method from one caller leaves alone when the
\* store has no metrics collector: the mutex bookkeeping of concurrent
\* callers, the sqlite store, and what is outside the stores
beside == <<mux, db, dbLast, outside>>

-----------------------------------------------------------------------------
(* Bounds *)

\* writes of the store file that fail in one run of the "io" profile
MaxIOFailures == 1

-----------------------------------------------------------------------------
(* Strings with letter case *)

\* strings.ToUpper on a sequence of ASCII codes
ToUpper(s) == [i \in DOMAIN s |-> IF s[i] \in 97..122 THEN s[i] - 32 ELSE s[i]]

\* strings.ToLower on a sequence of ASCII codes
ToLower(s) == [i \in DOMAIN s |-> IF s[i] \in 65..90 THEN s[i] + 32 ELSE s[i]]

\* "k" and "K"
SetupKeyIDs == {<<107>>, <<75>>}

\* "ex" and "Ex"
Domains == {<<101, 120>>, <<69, 120>>}

-----------------------------------------------------------------------------
(* Go maps *)

EmptyMap == [x \in {} |-> x]

MapPut(m, k, v) == [x \in (DOMAIN m) \cup {k} |-> IF x = k THEN v ELSE m[x]]

MapDelete(m, k) == [x \in (DOMAIN m) \ {k} |-> m[x]]

\* m[k] = v for every k of ks
MapPutAll(m, ks, v) == [x \in (DOMAIN m) \cup ks |-> IF x \in ks THEN v ELSE m[x]]

\* delete(m, k) for every k of ks
MapDeleteAll(m, ks) == [x \in (DOMAIN m) \ ks |-> m[x]]

-----------------------------------------------------------------------------
(* Values *)

AccountIDs == {"a1", "a2"}
PeerIDs == {"p1", "p2"}
PeerKeys == {"k1", "k2"}
UserIDs == {"u1"}
TokenIDs == {"t1"}
HashedTokens == {"h1"}

PrivateCategory == "private"
PublicCategory == "public"

OK == "OK"
InvalidArgument == "InvalidArgument"
NotFound == "NotFound"
IOError == "IOError"

\* the error kind of an underlying I/O or transaction failure
Internal == "Internal"

Peer(id, key) ==
    [ID |-> id, Key |-> key, Status |-> "s0", Location |-> "l0", LastLogin |-> "t0"]

PAT(id, hashed) == [ID |-> id, HashedToken |-> hashed]

User(id, pats) == [Id |-> id, PATs |-> pats, LastLogin |-> "t0"]

\* a group with its peer list, and a route with its peer and its group list
Group(id, name, peers) == [ID |-> id, Name |-> name, Peers |-> peers]

Route(id, peer, groups) == [ID |-> id, Peer |-> peer, Groups |-> groups]

Account(id, domain, category, primary, setupKeys, peers, users) ==
    [Id |-> id, Domain |-> domain, DomainCategory |-> category,
     IsDomainPrimaryAccount |-> primary, SetupKeys |-> setupKeys,
     Peers |-> peers, Users |-> users, Groups |-> EmptyMap, Routes |-> EmptyMap,
     Policies |-> EmptyMap, NameServerGroups |-> EmptyMap]

\* an account with no entities
BareAccount(id) == Account(id, <<>>, "", FALSE, {}, EmptyMap, EmptyMap)

\* the public keys a peer has over time: p1 is re-keyed, and p2 may use p1's new key
KeysOfPeer(p) == IF p = "p1" THEN {"k1", "k2"} ELSE {"k2"}

\* Account.Peers maps keyed by peer ID, as the account manager builds them
PeersMaps ==
    UNION {{[p \in S |-> Peer(p, key[p])] :
              key \in {f \in [S -> PeerKeys] : \A p \in S : f[p] \in KeysOfPeer(p)}} :
           S \in SUBSET PeerIDs}

PATsMaps ==
    UNION {{[t \in S |-> PAT(t, h[t])] : h \in [S -> HashedTokens]} : S \in SUBSET TokenIDs}

UsersMaps ==
    UNION {{[u \in S |-> User(u, pats[u])] : pats \in [S -> PATsMaps]} : S \in SUBSET UserIDs}

\* <<Domain, DomainCategory, IsDomainPrimaryAccount>> of the accounts of the "domain" profile
DomainSettings ==
    {<<d, PrivateCategory, TRUE>> : d \in Domains}
        \cup {<<ToLower(d), PrivateCategory, FALSE>> : d \in Domains}
        \cup {<<ToLower(d), PublicCategory, TRUE>> : d \in Domains}

\* The workloads.  In each the client varies one collection of the accounts;
\* writes of the store file fail in the "io" workload only.
Profiles == {"peers", "users", "setupkeys", "domain", "io"}

\* the accounts a client passes to SaveAccount and DeleteAccount, by workload
InputsOfProfile ==
  [prof \in Profiles |->
    LET ids == AccountIDs \cup {""} IN
    CASE prof = "peers" ->
           {[BareAccount(id) EXCEPT !.Peers = m] : id \in ids, m \in PeersMaps}
      [] prof = "users" ->
           {[BareAccount(id) EXCEPT !.Users = m] : id \in ids, m \in UsersMaps}
      [] prof = "setupkeys" ->
           {[BareAccount(id) EXCEPT !.SetupKeys = ks] : id \in ids, ks \in SUBSET SetupKeyIDs}
      [] prof = "domain" ->
           {[BareAccount(id) EXCEPT !.Domain = d[1], !.DomainCategory = d[2],
                                    !.IsDomainPrimaryAccount = d[3]] :
               id \in ids, d \in DomainSettings}
      [] prof = "io" ->
           {[BareAccount(id) EXCEPT !.Peers = m] :
               id \in ids, m \in {EmptyMap, [p \in {"p1"} |-> Peer(p, "k1")]}}]

\* The workloads of the store's life cycle: partial updates, the installation
\* ID, Close and restarts.  "status" varies the peers of one account, "login"
\* its users and their tokens; in "install" there are two accounts and writes
\* of the store file may fail.
LifeProfiles == {"status", "login", "install"}

\* the workload of the callers that take advisory locks: one bare account
LockProfiles == {"locks"}

\* the workload of the callers that run methods of the file store concurrently
MuxProfiles == {"mux"}

\* The workloads of the client that runs the same calls against a file store
\* and a sqlite store.  "tokens": account a1 with or without a user and its
\* token, and an account without an ID; "tenants": accounts a1 and a2, each
\* with or without a peer of its own.
EngineProfiles == {"tokens", "tenants"}

\* the workload of the store with a metrics collector: one bare account and
\* an account without an ID, and writes of the store file may fail
MetricsProfiles == {"metrics"}

\* The workloads of the callers that wait for the locks: in "advisory" they
\* take the advisory locks, in "internal" they call the methods that lock
\* s.mux, with one bare account and an account without an ID, and writes of
\* the store file may fail.  No method of the store takes an advisory lock and
\* no lock method takes s.mux, so the two kinds of waiting share no state.
LiveProfiles == {"advisory", "internal"}

\* the workload of the callers that look accounts up while others write
\* them: account a1 without entities or with a peer, a user and a setup key
AtomicProfiles == {"atomic"}

\* the workload of the store that is restarted between saves and lookups by
\* domain: account a1 with its domain in either letter case or without one,
\* private or public, primary or not
DomainProfiles == {"domains"}

\* the workload of the conversions: account a1 with or without a peer, a
\* user with a token and a setup key, and account a2 with or without a peer
ConvertProfiles == {"convert"}

InputsOfLifeProfile ==
  [prof \in LifeProfiles \cup LockProfiles \cup MuxProfiles \cup EngineProfiles
              \cup ConvertProfiles \cup MetricsProfiles \cup LiveProfiles
              \cup AtomicProfiles \cup DomainProfiles |->
    CASE prof = "status" ->
           {[BareAccount("a1") EXCEPT !.Peers = m] :
               m \in {EmptyMap, [p \in {"p1"} |-> Peer(p, "k1")]}}
      [] prof = "login" ->
           {[BareAccount("a1") EXCEPT !.Users = m] : m \in UsersMaps}
      [] prof = "install" ->
           {BareAccount(id) : id \in AccountIDs}
      [] prof = "locks" ->
           {BareAccount("a1")}
      [] prof = "mux" ->
           {BareAccount("a1")}
      [] prof = "tokens" ->
           {[BareAccount("a1") EXCEPT !.Users = m] : m \in UsersMaps} \cup {BareAccount("")}
      [] prof = "tenants" ->
           {[BareAccount("a1") EXCEPT !.Peers = m] :
               m \in {EmptyMap, [p \in {"p1"} |-> Peer(p, "k1")]}}
              \cup {[BareAccount("a2") EXCEPT !.Peers = m] :
                       m \in {EmptyMap, [p \in {"p2"} |-> Peer(p, "k2")]}}
      [] prof = "metrics" ->
           {BareAccount("a1"), BareAccount("")}
      [] prof \in LiveProfiles ->
           {BareAccount("a1"), BareAccount("")}
      [] prof = "domains" ->
           {[BareAccount("a1") EXCEPT !.Domain = d[1], !.DomainCategory = d[2],
                                      !.IsDomainPrimaryAccount = d[3]] :
               d \in DomainSettings \cup {<<(<<>>), PrivateCategory, TRUE>>}}
      [] prof = "atomic" ->
           {BareAccount("a1"),
            [BareAccount("a1") EXCEPT
               !.Peers = [p \in {"p1"} |-> Peer(p, "k1")],
               !.Users = [u \in {"u1"} |-> User(u, EmptyMap)],
               !.SetupKeys = {<<75>>}]}
      [] prof = "convert" ->
           {BareAccount("a1"),
            [BareAccount("a1") EXCEPT
               !.Peers = [p \in {"p1"} |-> Peer(p, "k1")],
               !.Users = [u \in {"u1"} |-> User(u, [t \in {"t1"} |-> PAT(t, "h1")])],
               !.SetupKeys = {<<75>>}]}
              \cup {[BareAccount("a2") EXCEPT !.Peers = m] :
                       m \in {EmptyMap, [p \in {"p2"} |-> Peer(p, "k2")]}}]

AccountInputs(prof) ==
    IF prof \in Profiles THEN InputsOfProfile[prof] ELSE InputsOfLifeProfile[prof]

\* the values of the fields that are updated in place
PeerStatuses == {"s0", "s1"}
Locations == {"l0", "l1"}
LastLogins == {"t0", "t1"}

\* the installation IDs a client saves
InstallationIDs == {"i1"}

\* a nil *Account
NilAccount == BareAccount("")

\* A pointer to an account, as a method sees it: the value it points to and
\* which object it is: "arg" the caller's argument, "stored" the object in
\* s.Accounts, "new" an object allocated during the call.
Pointer(acct, ptr) == [acct |-> acct, ptr |-> ptr]

\* Account.Copy: a deep clone, a new object that shares nothing with its source
Copy(p) == Pointer(p.acct, "new")

\* the method, the error kind it returned, and whether it logged the
\* "removed stale ... index" warning
Call(op, err, warn) == [op |-> op, err |-> err, warn |-> warn]

-----------------------------------------------------------------------------
(* The empty store: restore() of a data directory without a store file *)

\* the callers of the lock methods of the file store
FileCallers == {"c1", "c2"}

\* no mutex: the caller has loaded none
NoMutex == <<>>

\* a caller that is in no lock method and holds no lock
IdleCaller == [pc |-> "idle", id |-> "", mode |-> "", mtx |-> NoMutex]

\* a caller that is in no method of the file store; arg is the account a
\* SaveAccount or DeleteAccount in progress was called with
OutsideMux == [pc |-> "idle", op |-> "", raced |-> FALSE, value |-> "", arg |-> NilAccount]

\* the tables of the sqlite database that NewSqliteStore migrates: the rows of
\* each by primary key; a row of an owned entity is the key of its owner and
\* the entity
EmptyDB ==
    [accounts |-> EmptyMap, setup_keys |-> EmptyMap, peers |-> EmptyMap, users |-> EmptyMap,
     personal_access_tokens |-> EmptyMap, groups |-> EmptyMap, routes |-> EmptyMap,
     name_server_groups |-> EmptyMap, policies |-> EmptyMap, policy_rules |-> EmptyMap,
     installations |-> EmptyMap]

\* a method of the sqlite store, the error kind it returned and the value
SqliteCall(op, err, value) == [op |-> op, err |-> err, value |-> value]

\* no caller is in a method of the file store, and the sqlite store is a new
\* database that no method has been called on
\* what a call reported to the collector: the number of calls of
\* CountPersistenceDuration and of CountGlobalLockAcquisitionDuration, and of
\* reports of the acquisition of an account lock
NoReports == [persistence |-> 0, globalLock |-> 0, accountLock |-> 0]

\* a store made with a nil telemetry.AppMetrics
NoMetrics == [collector |-> FALSE, reports |-> NoReports]

\* no response was written yet
NoResponse == [status |-> "", body |-> <<>>]

\* no request has reached the policies handler
NoHttp ==
    [account |-> [Id |-> "", Policies |-> {}, Groups |-> EmptyMap],
     request |-> [handler |-> "", policyID |-> "", parses |-> FALSE,
                  body |-> [Name |-> "", Rules |-> <<>>], stored |-> <<>>],
     saved |-> <<>>,
     response |-> NoResponse]

Unused ==
    /\ metrics = NoMetrics
    /\ http = NoHttp
    /\ mux = [c \in FileCallers |-> OutsideMux]
    /\ db = EmptyDB
    /\ dbLast = SqliteCall("NewSqliteStore", OK, "")

\* the store of restore() when there is no store file, before any call
EmptyStore ==
    /\ Accounts = EmptyMap
    /\ SetupKeyID2AccountID = EmptyMap
    /\ PeerKeyID2AccountID = EmptyMap
    /\ PeerID2AccountID = EmptyMap
    /\ UserID2AccountID = EmptyMap
    /\ PrivateDomain2AccountID = EmptyMap
    /\ HashedPAT2TokenID = EmptyMap
    /\ TokenID2UserID = EmptyMap
    /\ disk = EmptyMap
    /\ ioFailures = 0
    /\ aliased = {}
    /\ last = Call("restore", OK, FALSE)
    /\ InstallationID = ""
    /\ diskInstallationID = ""
    /\ accountLocks = EmptyMap

Init ==
    /\ EmptyStore
    /\ Unused
    /\ profile \in Profiles
    /\ callers = [c \in FileCallers |-> IdleCaller]

-----------------------------------------------------------------------------
(* persist *)

\* util.WriteJson may fail; at most MaxIOFailures writes fail in a run of
\* the workloads with failing writes
CanPersist(ok) ==
    ok \/ (profile \in {"io", "install", "metrics", "internal"} /\ ioFailures < MaxIOFailures)

\* what the store file holds: the fields of FileStore that are not tagged json:"-"
StoreFile(accounts, installationID) ==
    [Accounts |-> accounts, InstallationID |-> installationID]

\* util.WriteJson: the file holds the value written, or what it held when the
\* write fails
WriteJson(ok, file, s) == IF ok THEN s ELSE file

\* util.ReadJson: the value the file holds
ReadJson(file) == StoreFile(file.Accounts, file.InstallationID)

\* FileStore.persist: util.WriteJson(file, s) writes the account map and the
\* installation ID that are in memory
persistStore(ok, accounts, installationID) ==
    LET written == WriteJson(ok, StoreFile(disk, diskInstallationID),
                             StoreFile(accounts, installationID))
    IN /\ disk' = written.Accounts
       /\ diskInstallationID' = written.InstallationID
       /\ ioFailures' = IF ok THEN ioFailures ELSE ioFailures + 1

\* persist called by a method that leaves the installation ID as it is
persist(ok, accounts) == persistStore(ok, accounts, InstallationID)

\* fault: persist drops the error of util.WriteJson
persistErr_Dropped(ok) == OK

\* persist returns the error of util.WriteJson as it is
persistErr(ok) == IF ok THEN OK ELSE IOError

-----------------------------------------------------------------------------
(* SaveAccount *)

\* fault: the store keeps the caller's object instead of a copy of it
accountCopy_NoCopy(arg) == arg

\* accountCopy := account.Copy()
accountCopy(arg) == Copy(arg)

PeersOf(account) == {account.Peers[k] : k \in DOMAIN account.Peers}

UsersOf(account) == {account.Users[k] : k \in DOMAIN account.Users}

PATsOfUser(user) == {user.PATs[k] : k \in DOMAIN user.PATs}

\* the pairs <<user, pat>> of an account
UserPATs(account) ==
    UNION {{<<u, t>> : t \in PATsOfUser(u)} : u \in UsersOf(account)}

\* for keyID := range accountCopy.SetupKeys { s.SetupKeyID2AccountID[ToUpper(keyID)] = Id }
SaveSetupKeyIndex(idx, account) ==
    MapPutAll(idx, {ToUpper(k) : k \in account.SetupKeys}, account.Id)

\* s.PeerKeyID2AccountID[peer.Key] = accountCopy.Id
SavePeerKeyIndex(idx, account) ==
    MapPutAll(idx, {p.Key : p \in PeersOf(account)}, account.Id)

\* fault: SaveAccount leaves the peer-ID index as it was
SavePeerIDIndex_Skip(idx, account) == idx

\* s.PeerID2AccountID[peer.ID] = accountCopy.Id
SavePeerIDIndex(idx, account) ==
    MapPutAll(idx, {p.ID : p \in PeersOf(account)}, account.Id)

\* s.UserID2AccountID[user.Id] = accountCopy.Id
SaveUserIndex(idx, account) ==
    MapPutAll(idx, {u.Id : u \in UsersOf(account)}, account.Id)

\* s.TokenID2UserID[pat.ID] = user.Id
\* (token IDs are unique within an account, so the loop order does not matter)
SaveTokenIndex(idx, account) ==
    LET ups == UserPATs(account)
        ks == {up[2].ID : up \in ups}
    IN [x \in (DOMAIN idx) \cup ks |->
          IF x \in ks THEN (CHOOSE up \in ups : up[2].ID = x)[1].Id ELSE idx[x]]

\* s.HashedPAT2TokenID[pat.HashedToken] = pat.ID
SaveHashedTokenIndex(idx, account) ==
    LET ups == UserPATs(account)
        ks == {up[2].HashedToken : up \in ups}
    IN [x \in (DOMAIN idx) \cup ks |->
          IF x \in ks THEN (CHOOSE up \in ups : up[2].HashedToken = x)[2].ID ELSE idx[x]]

\* if DomainCategory == PrivateCategory && IsDomainPrimaryAccount { index[Domain] = Id }
SaveDomainIndex(idx, account) ==
    IF account.DomainCategory = PrivateCategory /\ account.IsDomainPrimaryAccount
    THEN MapPut(idx, account.Domain, account.Id)
    ELSE idx

\* fault: an account that is already stored is merged, not replaced: its peers stay
StoreAccount_Merge(accounts, account) ==
    IF account.Id \in DOMAIN accounts
    THEN MapPut(accounts, account.Id,
                [account EXCEPT !.Peers =
                    [k \in (DOMAIN accounts[account.Id].Peers) \cup (DOMAIN account.Peers) |->
                        IF k \in DOMAIN account.Peers THEN account.Peers[k]
                        ELSE accounts[account.Id].Peers[k]]])
    ELSE MapPut(accounts, account.Id, account)

\* s.Accounts[accountCopy.Id] = accountCopy
StoreAccount(accounts, account) == MapPut(accounts, account.Id, account)

\* SaveAccount past the validation: the copy, the indices and persist
SaveAccountStore(account, ok) ==
    LET stored == accountCopy(Pointer(account, "arg"))
        a == stored.acct
    IN /\ CanPersist(ok)
       /\ Accounts' = StoreAccount(Accounts, a)
       /\ SetupKeyID2AccountID' = SaveSetupKeyIndex(SetupKeyID2AccountID, a)
       /\ PeerKeyID2AccountID' = SavePeerKeyIndex(PeerKeyID2AccountID, a)
       /\ PeerID2AccountID' = SavePeerIDIndex(PeerID2AccountID, a)
       /\ UserID2AccountID' = SaveUserIndex(UserID2AccountID, a)
       /\ TokenID2UserID' = SaveTokenIndex(TokenID2UserID, a)
       /\ HashedPAT2TokenID' = SaveHashedTokenIndex(HashedPAT2TokenID, a)
       /\ PrivateDomain2AccountID' = SaveDomainIndex(PrivateDomain2AccountID, a)
       /\ persist(ok, Accounts')
       /\ last' = Call("SaveAccount", persistErr(ok), FALSE)
       /\ aliased' = IF stored.ptr = "arg"
                      THEN aliased \cup {a.Id}
                      ELSE aliased \ {a.Id}
       /\ UNCHANGED <<profile, InstallationID, advisory>>

\* SaveAccount without the check of the account ID
SaveAccount_NoValidation(account, ok) == SaveAccountStore(account, ok)

SaveAccount(account, ok) ==
    IF account.Id = ""
    THEN /\ last' = Call("SaveAccount", InvalidArgument, FALSE)
         /\ UNCHANGED <<Accounts, indices, disk, diskInstallationID, ioFailures, profile,
                   InstallationID, advisory, aliased>>
    ELSE SaveAccountStore(account, ok)

-----------------------------------------------------------------------------
(* DeleteAccount *)

\* delete(s.SetupKeyID2AccountID, strings.ToUpper(keyID))
DeleteSetupKeyIndex(idx, account) ==
    MapDeleteAll(idx, {ToUpper(k) : k \in account.SetupKeys})

\* delete(s.PeerKeyID2AccountID, peer.Key)
DeletePeerKeyIndex(idx, account) ==
    MapDeleteAll(idx, {p.Key : p \in PeersOf(account)})

\* delete(s.PeerID2AccountID, peer.ID)
DeletePeerIDIndex(idx, account) ==
    MapDeleteAll(idx, {p.ID : p \in PeersOf(account)})

\* delete(s.TokenID2UserID, pat.ID)
DeleteTokenIndex(idx, account) ==
    MapDeleteAll(idx, {up[2].ID : up \in UserPATs(account)})

\* delete(s.HashedPAT2TokenID, pat.HashedToken)
DeleteHashedTokenIndex(idx, account) ==
    MapDeleteAll(idx, {up[2].HashedToken : up \in UserPATs(account)})

\* delete(s.UserID2AccountID, user.Id)
DeleteUserIndex(idx, account) ==
    MapDeleteAll(idx, {u.Id : u \in UsersOf(account)})

\* if DomainCategory == PrivateCategory && IsDomainPrimaryAccount { delete(index, Domain) }
DeleteDomainIndex(idx, account) ==
    IF account.DomainCategory = PrivateCategory /\ account.IsDomainPrimaryAccount
    THEN MapDelete(idx, account.Domain)
    ELSE idx

\* fault: deleting an account removes its mutex from the lock registry
DeleteAccount_DroppingLock(account, ok) ==
    IF account.Id = ""
       THEN /\ last' = Call("DeleteAccount", InvalidArgument, FALSE)
            /\ UNCHANGED <<Accounts, indices, disk, diskInstallationID, ioFailures, profile,
                   InstallationID, advisory, aliased>>
       ELSE /\ CanPersist(ok)
            /\ SetupKeyID2AccountID' = DeleteSetupKeyIndex(SetupKeyID2AccountID, account)
            /\ PeerKeyID2AccountID' = DeletePeerKeyIndex(PeerKeyID2AccountID, account)
            /\ PeerID2AccountID' = DeletePeerIDIndex(PeerID2AccountID, account)
            /\ TokenID2UserID' = DeleteTokenIndex(TokenID2UserID, account)
            /\ HashedPAT2TokenID' = DeleteHashedTokenIndex(HashedPAT2TokenID, account)
            /\ UserID2AccountID' = DeleteUserIndex(UserID2AccountID, account)
            /\ PrivateDomain2AccountID' = DeleteDomainIndex(PrivateDomain2AccountID, account)
            /\ Accounts' = MapDelete(Accounts, account.Id)
            /\ persist(ok, Accounts')
            /\ last' = Call("DeleteAccount", persistErr(ok), FALSE)
            /\ aliased' = aliased \ {account.Id}
            /\ accountLocks' = MapDelete(accountLocks, account.Id)
            /\ UNCHANGED <<profile, InstallationID, callers>>

DeleteAccount(account, ok) ==
    IF account.Id = ""
       THEN /\ last' = Call("DeleteAccount", InvalidArgument, FALSE)
            /\ UNCHANGED <<Accounts, indices, disk, diskInstallationID, ioFailures, profile,
                   InstallationID, advisory, aliased>>
       ELSE /\ CanPersist(ok)
            /\ SetupKeyID2AccountID' = DeleteSetupKeyIndex(SetupKeyID2AccountID, account)
            /\ PeerKeyID2AccountID' = DeletePeerKeyIndex(PeerKeyID2AccountID, account)
            /\ PeerID2AccountID' = DeletePeerIDIndex(PeerID2AccountID, account)
            /\ TokenID2UserID' = DeleteTokenIndex(TokenID2UserID, account)
            /\ HashedPAT2TokenID' = DeleteHashedTokenIndex(HashedPAT2TokenID, account)
            /\ UserID2AccountID' = DeleteUserIndex(UserID2AccountID, account)
            /\ PrivateDomain2AccountID' = DeleteDomainIndex(PrivateDomain2AccountID, account)
            /\ Accounts' = MapDelete(Accounts, account.Id)
            /\ persist(ok, Accounts')
            /\ last' = Call("DeleteAccount", persistErr(ok), FALSE)
            /\ aliased' = aliased \ {account.Id}
            /\ UNCHANGED <<profile, InstallationID, advisory>>

-----------------------------------------------------------------------------
(* Explicit index removal *)

DeleteHashedPAT2TokenIDIndex(hashedToken) ==
    /\ HashedPAT2TokenID' = MapDelete(HashedPAT2TokenID, hashedToken)
    /\ last' = Call("DeleteHashedPAT2TokenIDIndex", OK, FALSE)
    /\ UNCHANGED <<Accounts, SetupKeyID2AccountID, PeerKeyID2AccountID, PeerID2AccountID,
                   UserID2AccountID, PrivateDomain2AccountID, TokenID2UserID,
                   disk, diskInstallationID, ioFailures, profile,
                   InstallationID, advisory, aliased>>

DeleteTokenID2UserIDIndex(tokenID) ==
    /\ TokenID2UserID' = MapDelete(TokenID2UserID, tokenID)
    /\ last' = Call("DeleteTokenID2UserIDIndex", OK, FALSE)
    /\ UNCHANGED <<Accounts, SetupKeyID2AccountID, PeerKeyID2AccountID, PeerID2AccountID,
                   UserID2AccountID, PrivateDomain2AccountID, HashedPAT2TokenID,
                   disk, diskInstallationID, ioFailures, profile,
                   InstallationID, advisory, aliased>>
-----------------------------------------------------------------------------
(* Lookups *)

\* what a lookup found: the error, the account ID, and whether the index
\* entry it went through is stale and gets deleted
Found(accountID) == [err |-> OK, accountID |-> accountID, stale |-> FALSE]

Missing == [err |-> NotFound, accountID |-> "", stale |-> FALSE]

Stale == [err |-> NotFound, accountID |-> "", stale |-> TRUE]

\* FileStore.getAccount: a reference to the stored account, or NotFound
getAccount(accountID) ==
    IF accountID \in DOMAIN Accounts THEN Found(accountID) ELSE Missing

\* The caller receives account.Copy() of the account a lookup found.  When the
\* returned pointer is the stored object itself, the caller now holds that object.
ReturnAccount(r) ==
    IF r.err = OK /\ Copy(Pointer(Accounts[r.accountID], "stored")).ptr = "stored"
    THEN aliased \cup {r.accountID}
    ELSE aliased

\* a lookup that changes no field of the store
ReadOnly(op, r) ==
    /\ aliased' = ReturnAccount(r)
    /\ last' = Call(op, r.err, FALSE)
    /\ UNCHANGED <<Accounts, indices, disk, diskInstallationID, ioFailures, profile,
                   InstallationID, advisory>>

GetAccountResult(accountID) == getAccount(accountID)

GetAccount(accountID) == ReadOnly("GetAccount", GetAccountResult(accountID))

\* GetAllAccounts returns a.Copy() of every stored account
GetAllAccounts ==
    /\ aliased' = aliased \cup
          {id \in DOMAIN Accounts : Copy(Pointer(Accounts[id], "stored")).ptr = "stored"}
    /\ last' = Call("GetAllAccounts", OK, FALSE)
    /\ UNCHANGED <<Accounts, indices, disk, diskInstallationID, ioFailures, profile,
                   InstallationID, advisory>>

GetAccountByPrivateDomainResult(domain) ==
    IF ToLower(domain) \notin DOMAIN PrivateDomain2AccountID
    THEN Missing
    ELSE getAccount(PrivateDomain2AccountID[ToLower(domain)])

GetAccountByPrivateDomain(domain) ==
    ReadOnly("GetAccountByPrivateDomain", GetAccountByPrivateDomainResult(domain))

GetAccountBySetupKeyResult(setupKey) ==
    IF ToUpper(setupKey) \notin DOMAIN SetupKeyID2AccountID
    THEN Missing
    ELSE getAccount(SetupKeyID2AccountID[ToUpper(setupKey)])

GetAccountBySetupKey(setupKey) ==
    ReadOnly("GetAccountBySetupKey", GetAccountBySetupKeyResult(setupKey))

GetAccountByUserResult(userID) ==
    IF userID \notin DOMAIN UserID2AccountID
    THEN Missing
    ELSE getAccount(UserID2AccountID[userID])

GetAccountByUser(userID) ==
    ReadOnly("GetAccountByUser", GetAccountByUserResult(userID))

GetAccountByPeerIDResult(peerID) ==
    IF peerID \notin DOMAIN PeerID2AccountID
    THEN Missing
    ELSE LET r == getAccount(PeerID2AccountID[peerID]) IN
         IF r.err # OK THEN r
         ELSE IF peerID \notin DOMAIN Accounts[r.accountID].Peers THEN Stale
         ELSE r

GetAccountByPeerID(peerID) ==
    LET r == GetAccountByPeerIDResult(peerID) IN
    /\ PeerID2AccountID' =
          IF r.stale THEN MapDelete(PeerID2AccountID, peerID) ELSE PeerID2AccountID
    /\ aliased' = ReturnAccount(r)
    /\ last' = Call("GetAccountByPeerID", r.err, r.stale)
    /\ UNCHANGED <<Accounts, SetupKeyID2AccountID, PeerKeyID2AccountID, UserID2AccountID,
                   PrivateDomain2AccountID, HashedPAT2TokenID, TokenID2UserID,
                   disk, diskInstallationID, ioFailures, profile,
                   InstallationID, advisory>>

\* fault: the lookup by public key trusts its index entry
GetAccountByPeerPubKeyResult_Trusting(peerKey) ==
    IF peerKey \notin DOMAIN PeerKeyID2AccountID
    THEN Missing
    ELSE getAccount(PeerKeyID2AccountID[peerKey])

GetAccountByPeerPubKeyResult(peerKey) ==
    IF peerKey \notin DOMAIN PeerKeyID2AccountID
    THEN Missing
    ELSE LET r == getAccount(PeerKeyID2AccountID[peerKey]) IN
         IF r.err # OK THEN r
         ELSE IF \A p \in PeersOf(Accounts[r.accountID]) : p.Key # peerKey THEN Stale
         ELSE r

GetAccountByPeerPubKey(peerKey) ==
    LET r == GetAccountByPeerPubKeyResult(peerKey) IN
    /\ PeerKeyID2AccountID' =
          IF r.stale THEN MapDelete(PeerKeyID2AccountID, peerKey) ELSE PeerKeyID2AccountID
    /\ aliased' = ReturnAccount(r)
    /\ last' = Call("GetAccountByPeerPubKey", r.err, r.stale)
    /\ UNCHANGED <<Accounts, SetupKeyID2AccountID, PeerID2AccountID, UserID2AccountID,
                   PrivateDomain2AccountID, HashedPAT2TokenID, TokenID2UserID,
                   disk, diskInstallationID, ioFailures, profile,
                   InstallationID, advisory>>

GetAccountIDByPeerPubKeyResult(peerKey) ==
    IF peerKey \notin DOMAIN PeerKeyID2AccountID
    THEN Missing
    ELSE Found(PeerKeyID2AccountID[peerKey])

GetAccountIDByPeerPubKey(peerKey) ==
    LET r == GetAccountIDByPeerPubKeyResult(peerKey) IN
    /\ last' = Call("GetAccountIDByPeerPubKey", r.err, FALSE)
    /\ UNCHANGED <<Accounts, indices, disk, diskInstallationID, ioFailures, profile,
                   InstallationID, advisory, aliased>>

-----------------------------------------------------------------------------
(* The caller *)

\* a change the caller makes to the account object it holds
Mutated(account) ==
    [account EXCEPT !.IsDomainPrimaryAccount = ~account.IsDomainPrimaryAccount]

\* The caller writes to an account object it passed to SaveAccount or received
\* from a lookup of the account stored under accountID.  The write reaches the
\* store only when the store holds that very object.
CallerMutate(accountID) ==
    /\ accountID \in DOMAIN Accounts
    /\ Accounts' = IF accountID \in aliased
                   THEN [Accounts EXCEPT ![accountID] = Mutated(@)]
                   ELSE Accounts
    /\ last' = Call("CallerMutate", OK, FALSE)
    /\ UNCHANGED <<indices, disk, diskInstallationID, ioFailures, profile,
                   InstallationID, advisory, aliased>>

-----------------------------------------------------------------------------
(* Specification *)

Next ==
    \/ \E account \in AccountInputs(profile), ok \in BOOLEAN : SaveAccount(account, ok)
          /\ UNCHANGED beside
    \/ \E account \in AccountInputs(profile), ok \in BOOLEAN : DeleteAccount(account, ok)
          /\ UNCHANGED beside
    \/ \E hashedToken \in HashedTokens : DeleteHashedPAT2TokenIDIndex(hashedToken)
          /\ UNCHANGED beside
    \/ \E tokenID \in TokenIDs : DeleteTokenID2UserIDIndex(tokenID) /\ UNCHANGED beside
    \/ \E accountID \in AccountIDs : GetAccount(accountID) /\ UNCHANGED beside
    \/ GetAllAccounts /\ UNCHANGED beside
    \/ \E domain \in Domains : GetAccountByPrivateDomain(domain) /\ UNCHANGED beside
    \/ \E setupKey \in SetupKeyIDs : GetAccountBySetupKey(setupKey) /\ UNCHANGED beside
    \/ \E userID \in UserIDs : GetAccountByUser(userID) /\ UNCHANGED beside
    \/ \E peerID \in PeerIDs : GetAccountByPeerID(peerID) /\ UNCHANGED beside
    \/ \E peerKey \in PeerKeys : GetAccountByPeerPubKey(peerKey) /\ UNCHANGED beside
    \/ \E peerKey \in PeerKeys : GetAccountIDByPeerPubKey(peerKey) /\ UNCHANGED beside
    \/ \E accountID \in AccountIDs : CallerMutate(accountID) /\ UNCHANGED beside

Spec == Init /\ [][Next]_vars

-----------------------------------------------------------------------------
(* The advisory locks: who holds what *)

\* the callers that hold globalAccountLock
GlobalHolders == {c \in DOMAIN callers : callers[c].pc = "global"}

\* the callers that hold the mutex mtx, for reading or for writing
Holders(mtx) == {c \in DOMAIN callers : callers[c].pc = "holding" /\ callers[c].mtx = mtx}

\* the callers that hold the mutex mtx for writing
Writers(mtx) == {c \in Holders(mtx) : callers[c].mode = "write"}

\* the callers that are between the return of an acquisition of the lock of
\* account id and the call of its release function
HoldersOf(id) == {c \in DOMAIN callers : callers[c].pc = "holding" /\ callers[c].id = id}

-----------------------------------------------------------------------------
(* Token lookups *)

\* GetTokenIDByHashedToken: the token ID of a hashed token, or NotFound
GetTokenIDByHashedTokenResult(token) ==
    IF token \in DOMAIN HashedPAT2TokenID
    THEN [err |-> OK, tokenID |-> HashedPAT2TokenID[token]]
    ELSE [err |-> NotFound, tokenID |-> ""]

GetTokenIDByHashedToken(token) ==
    /\ last' = Call("GetTokenIDByHashedToken", GetTokenIDByHashedTokenResult(token).err, FALSE)
    /\ UNCHANGED <<Accounts, indices, disk, diskInstallationID, ioFailures, profile,
                   InstallationID, advisory, aliased>>

\* a nil *User
NilUser == User("", EmptyMap)

\* the nil pointer dereference of a method called on a nil *User
Panic == "Panic"

\* account.Users[userID].Copy() when the account has no such user: the map
\* yields a nil *User, and Copy either dereferences it and panics or hands
\* the nil pointer back
NilUserCopy ==
    {[err |-> Panic, user |-> NilUser], [err |-> OK, user |-> NilUser]}

\* GetUserByTokenID: token ID -> user ID -> account ID -> account -> user,
\* the outcomes the call can have
GetUserByTokenIDResults(tokenID) ==
    IF tokenID \notin DOMAIN TokenID2UserID
    THEN {[err |-> NotFound, user |-> NilUser]}
    ELSE LET userID == TokenID2UserID[tokenID] IN
         IF userID \notin DOMAIN UserID2AccountID
         THEN {[err |-> NotFound, user |-> NilUser]}
         ELSE LET r == getAccount(UserID2AccountID[userID]) IN
              IF r.err # OK
              THEN {[err |-> r.err, user |-> NilUser]}
              ELSE IF userID \in DOMAIN Accounts[r.accountID].Users
                   THEN {[err |-> OK, user |-> Accounts[r.accountID].Users[userID]]}
                   ELSE NilUserCopy

GetUserByTokenID(tokenID) ==
    \E r \in GetUserByTokenIDResults(tokenID) :
       /\ last' = Call("GetUserByTokenID", r.err, FALSE)
       /\ UNCHANGED <<Accounts, indices, disk, diskInstallationID, ioFailures, profile,
                      InstallationID, advisory, aliased>>

-----------------------------------------------------------------------------
(* Updates in place, the installation ID and Close *)

\* what SavePeerStatus, SavePeerLocation and SaveUserLastLogin return:
\* the error of getAccount, or NotFound when the account lacks the entity
\* fault: the update in place does not check that the account has the entity
SaveFieldErr_Unchecked(accountID, collection, entityID) == getAccount(accountID).err

\* collection is "Peers" or "Users", the map of the account the entity is in
SaveFieldErr(accountID, collection, entityID) ==
    IF getAccount(accountID).err # OK THEN getAccount(accountID).err
    ELSE IF entityID \notin DOMAIN Accounts[accountID][collection] THEN NotFound
    ELSE OK

\* fault: the update in place also writes the store file
SaveField_Persisting(op, err, accounts) ==
    /\ Accounts' = IF err = OK THEN accounts ELSE Accounts
    /\ last' = Call(op, err, FALSE)
    /\ disk' = Accounts'
    /\ UNCHANGED <<indices, diskInstallationID, ioFailures, profile,
                   InstallationID, advisory, aliased>>

\* an update in place writes the field of the stored entity and nothing else
SaveField(op, err, accounts) ==
    /\ Accounts' = IF err = OK THEN accounts ELSE Accounts
    /\ last' = Call(op, err, FALSE)
    /\ UNCHANGED <<indices, disk, diskInstallationID, ioFailures, profile,
                   InstallationID, advisory, aliased>>

SavePeerStatus(accountID, peerID, peerStatus) ==
    LET err == SaveFieldErr(accountID, "Peers", peerID) IN
    SaveField("SavePeerStatus", err,
              IF err = OK
              THEN [Accounts EXCEPT ![accountID].Peers[peerID].Status = peerStatus]
              ELSE Accounts)

SavePeerLocation(accountID, peerWithLocation) ==
    LET err == SaveFieldErr(accountID, "Peers", peerWithLocation.ID) IN
    SaveField("SavePeerLocation", err,
              IF err = OK
              THEN [Accounts EXCEPT ![accountID].Peers[peerWithLocation.ID].Location =
                                        peerWithLocation.Location]
              ELSE Accounts)

SaveUserLastLogin(accountID, userID, lastLogin) ==
    LET err == SaveFieldErr(accountID, "Users", userID) IN
    SaveField("SaveUserLastLogin", err,
              IF err = OK
              THEN [Accounts EXCEPT ![accountID].Users[userID].LastLogin = lastLogin]
              ELSE Accounts)

SaveInstallationID(ID, ok) ==
    /\ CanPersist(ok)
    /\ InstallationID' = ID
    /\ persistStore(ok, Accounts, ID)
    /\ last' = Call("SaveInstallationID", persistErr(ok), FALSE)
    /\ UNCHANGED <<Accounts, indices, profile, advisory, aliased>>

\* fault: Close waits for the global lock
Close_UnderGlobalLock(ok) ==
    /\ GlobalHolders = {}
    /\ CanPersist(ok)
    /\ persist(ok, Accounts)
    /\ last' = Call("Close", persistErr(ok), FALSE)
    /\ UNCHANGED <<Accounts, indices, profile, InstallationID, advisory, aliased>>

Close(ok) ==
    /\ CanPersist(ok)
    /\ persist(ok, Accounts)
    /\ last' = Call("Close", persistErr(ok), FALSE)
    /\ UNCHANGED <<Accounts, indices, profile, InstallationID, advisory, aliased>>

-----------------------------------------------------------------------------
(* Restart: the process ends and NewFileStore restores the store file *)

\* the orders in which a range loop may visit the keys of a map
Orders(m) ==
    {o \in [1..Cardinality(DOMAIN m) -> DOMAIN m] :
        \A i, j \in 1..Cardinality(DOMAIN m) : o[i] = o[j] => i = j}

\* restore indexes the domain of a primary private account with a non-empty domain
RestoreDomainIndex(idx, account) ==
    IF account.Domain # <<>> THEN SaveDomainIndex(idx, account) ELSE idx

\* the index entries restore adds for one account, from the account as read
RestoreAccountIndices(idx, account) ==
    [SetupKeyID2AccountID |-> SaveSetupKeyIndex(idx.SetupKeyID2AccountID, account),
     PeerKeyID2AccountID |-> SavePeerKeyIndex(idx.PeerKeyID2AccountID, account),
     PeerID2AccountID |-> SavePeerIDIndex(idx.PeerID2AccountID, account),
     UserID2AccountID |-> SaveUserIndex(idx.UserID2AccountID, account),
     TokenID2UserID |-> SaveTokenIndex(idx.TokenID2UserID, account),
     HashedPAT2TokenID |-> SaveHashedTokenIndex(idx.HashedPAT2TokenID, account),
     PrivateDomain2AccountID |-> RestoreDomainIndex(idx.PrivateDomain2AccountID, account)]

\* the index maps as restore makes them: all empty
EmptyIndices ==
    [SetupKeyID2AccountID |-> EmptyMap, PeerKeyID2AccountID |-> EmptyMap,
     PeerID2AccountID |-> EmptyMap, UserID2AccountID |-> EmptyMap,
     TokenID2UserID |-> EmptyMap, HashedPAT2TokenID |-> EmptyMap,
     PrivateDomain2AccountID |-> EmptyMap]

\* account.GetGroupAll: the IDs of the groups named "All"; none is the error
GroupAll(account) == {g \in DOMAIN account.Groups : account.Groups[g].Name = "All"}

\* for _, route := range account.Routes { if len(route.Groups) == 0 { route.Groups = {allGroup.ID} } }
BackfillRouteGroups(account) ==
    LET allGroup == CHOOSE g \in GroupAll(account) : TRUE IN
    [account EXCEPT !.Routes =
        [r \in DOMAIN account.Routes |->
            IF Len(account.Routes[r].Groups) = 0
            THEN [account.Routes[r] EXCEPT !.Groups = <<allGroup>>]
            ELSE account.Routes[r]]]

\* the zero time.Time, and the time.Now().UTC() of a restore
ZeroTime == "0"
Now == "now"

\* if peer.LastLogin.IsZero() { peer.LastLogin = time.Now().UTC() }
StampLastLogin(account) ==
    [account EXCEPT !.Peers =
        [k \in DOMAIN account.Peers |->
            IF account.Peers[k].LastLogin = ZeroTime
            THEN [account.Peers[k] EXCEPT !.LastLogin = Now]
            ELSE account.Peers[k]]]

\* the keys of account.Peers whose peer has an empty ID: the keys of migrationPeers
MigrationKeys(account) == {k \in DOMAIN account.Peers : account.Peers[k].ID = ""}

\* the IDs that xid.New() may generate
Xids == {"x1", "x2"}

\* The IDs xid.New() generates in one restore of the accounts: a different
\* one for every peer with an empty ID of every account that has its All
\* group, by account ID and key of account.Peers.
NewIDs(accounts) ==
    LET need == UNION {{<<a, k>> : k \in MigrationKeys(accounts[a])} :
                          a \in {x \in DOMAIN accounts : GroupAll(accounts[x]) # {}}}
    IN {ids \in [need -> Xids] : \A x, y \in need : ids[x] = ids[y] => x = y}

\* peer.ID = id, then delete(account.Peers, key); account.Peers[peer.ID] = peer
RekeyPeers(account, id) ==
    LET keys == MigrationKeys(account)
        keyOf(n) == CHOOSE k \in keys : id[k] = n
    IN [account EXCEPT !.Peers =
          [n \in ((DOMAIN account.Peers) \ keys) \cup {id[k] : k \in keys} |->
              IF n \in {id[k] : k \in keys}
              THEN [account.Peers[keyOf(n)] EXCEPT !.ID = n]
              ELSE account.Peers[n]]]

\* if p, ok := migrationPeers[peer]; ok { group.Peers[i] = p.ID }
MigrateGroups(account, keys, id) ==
    [account EXCEPT !.Groups =
        [g \in DOMAIN account.Groups |->
            [account.Groups[g] EXCEPT !.Peers =
                [i \in DOMAIN account.Groups[g].Peers |->
                    IF account.Groups[g].Peers[i] \in keys
                    THEN id[account.Groups[g].Peers[i]]
                    ELSE account.Groups[g].Peers[i]]]]]

\* fault: the routes keep the public key as their peer
MigrateRoutes_Skip(account, keys, id) == account

\* if peer, ok := migrationPeers[route.Peer]; ok { route.Peer = peer.ID }
MigrateRoutes(account, keys, id) ==
    [account EXCEPT !.Routes =
        [r \in DOMAIN account.Routes |->
            IF account.Routes[r].Peer \in keys
            THEN [account.Routes[r] EXCEPT !.Peer = id[account.Routes[r].Peer]]
            ELSE account.Routes[r]]]

\* The migration to Peer.ID from Peer.Key of one account: id maps the keys of
\* the peers with an empty ID to their new IDs.
MigratePeerIDs(account, id) ==
    LET keys == MigrationKeys(account) IN
    IF keys = {}
    THEN account
    ELSE MigrateRoutes(MigrateGroups(RekeyPeers(account, id), keys, id), keys, id)

\* fault: an account without its All group ends the loop over the accounts
Continue_Break(r) == [r EXCEPT !.looping = FALSE]

\* continue: the loop goes on with the next account
Continue(r) == r

\* One pass of the loop of restore over the accounts, for the account with
\* accountID: r is the store so far, ids the IDs that xid.New() generates.
RestoreAccount(r, accountID, ids) ==
    LET account == r.Accounts[accountID]
        indexed == [r EXCEPT !.idx = RestoreAccountIndices(r.idx, account)]
        id == [k \in MigrationKeys(account) |-> ids[<<accountID, k>>]]
        migrated == MigratePeerIDs(StampLastLogin(BackfillRouteGroups(account)), id)
    IN IF ~r.looping THEN r
       ELSE IF GroupAll(account) = {} THEN Continue(indexed)
       ELSE [indexed EXCEPT
               !.Accounts = MapPut(r.Accounts, accountID, migrated),
               !.idx.PeerID2AccountID =
                   MapPutAll(indexed.idx.PeerID2AccountID, {id[k] : k \in DOMAIN id},
                             accountID)]

\* the accounts and the indices that restore makes of the accounts it read,
\* visiting them in order
RECURSIVE RestoreAccounts(_, _, _)
RestoreAccounts(accounts, order, ids) ==
    IF order = <<>>
    THEN [Accounts |-> accounts, idx |-> EmptyIndices, looping |-> TRUE]
    ELSE RestoreAccount(RestoreAccounts(accounts, SubSeq(order, 1, Len(order) - 1), ids),
                        order[Len(order)], ids)

\* restore: the accounts and the installation ID are those of the file, the
\* accounts are migrated and the indices built anew, the file is written
\* again, and no caller of the ended process holds an object or a lock of the
\* new one.  A restore whose write fails returns no store; the model restarts
\* with writes that succeed.
restore(order, ids) ==
    LET read == ReadJson(StoreFile(disk, diskInstallationID))
        store == RestoreAccounts(read.Accounts, order, ids)
    IN
    /\ Accounts' = store.Accounts
    /\ InstallationID' = read.InstallationID
    /\ SetupKeyID2AccountID' = store.idx.SetupKeyID2AccountID
    /\ PeerKeyID2AccountID' = store.idx.PeerKeyID2AccountID
    /\ PeerID2AccountID' = store.idx.PeerID2AccountID
    /\ UserID2AccountID' = store.idx.UserID2AccountID
    /\ TokenID2UserID' = store.idx.TokenID2UserID
    /\ HashedPAT2TokenID' = store.idx.HashedPAT2TokenID
    /\ PrivateDomain2AccountID' = store.idx.PrivateDomain2AccountID
    /\ persistStore(TRUE, Accounts', InstallationID')
    /\ aliased' = {}
    /\ callers' = [c \in DOMAIN callers |-> IdleCaller]
    /\ accountLocks' = EmptyMap
    /\ last' = Call("restore", OK, FALSE)
    /\ UNCHANGED profile

-----------------------------------------------------------------------------
(* The store over its life: every method, and restarts *)

LifeInit ==
    /\ EmptyStore
    /\ Unused
    /\ profile \in LifeProfiles
    /\ callers = [c \in FileCallers |-> IdleCaller]

LifeNext ==
    \/ Next
    \/ \E token \in HashedTokens : GetTokenIDByHashedToken(token) /\ UNCHANGED beside
    \/ \E tokenID \in TokenIDs : GetUserByTokenID(tokenID) /\ UNCHANGED beside
    \/ \E accountID \in AccountIDs, peerID \in PeerIDs, peerStatus \in PeerStatuses :
          SavePeerStatus(accountID, peerID, peerStatus) /\ UNCHANGED beside
    \/ \E accountID \in AccountIDs, peerID \in PeerIDs, location \in Locations :
          SavePeerLocation(accountID, [Peer(peerID, "k1") EXCEPT !.Location = location])
          /\ UNCHANGED beside
    \/ \E accountID \in AccountIDs, userID \in UserIDs, lastLogin \in LastLogins :
          SaveUserLastLogin(accountID, userID, lastLogin) /\ UNCHANGED beside
    \/ \E ID \in InstallationIDs, ok \in BOOLEAN : SaveInstallationID(ID, ok)
          /\ UNCHANGED beside
    \/ \E ok \in BOOLEAN : Close(ok) /\ UNCHANGED beside
    \/ \E order \in Orders(disk), ids \in NewIDs(disk) :
          restore(order, ids) /\ UNCHANGED beside

LifeSpec == LifeInit /\ [][LifeNext]_vars

\* the store over its life in the workload of the domains
DomainInit ==
    /\ EmptyStore
    /\ Unused
    /\ profile \in DomainProfiles
    /\ callers = [c \in FileCallers |-> IdleCaller]

DomainSpec == DomainInit /\ [][LifeNext]_vars

-----------------------------------------------------------------------------
(* Start-up on a store file written by an earlier version *)

\* The peers map of an account with one peer of the given public key and
\* last login: as an earlier version wrote it, under the key and with an
\* empty ID, or under the ID.
StoredPeers(key, id) ==
    {[k \in {key} |-> [Peer("", key) EXCEPT !.LastLogin = t]] : t \in {ZeroTime, "t0"}}
       \cup {[k \in {id} |-> [Peer(id, key) EXCEPT !.LastLogin = t]] : t \in {ZeroTime, "t0"}}

\* An account of a store file: first is the peers map of its one peer that
\* may need migration, others the peers that need none; a group and the All
\* group (when the account has it) list all its peers, route "r1" is assigned
\* to the first peer and has the given group list, and every other peer has
\* a route with a group list.
StoredAccount(id, first, others, hasAll, routeGroups) ==
    LET ref == CHOOSE k \in DOMAIN first : TRUE
        refs == <<ref>> \o others
        peers == [k \in (DOMAIN first) \cup {others[i] : i \in DOMAIN others} |->
                     IF k \in DOMAIN first THEN first[k] ELSE Peer(k, "k2")]
        named == [g \in {"g1"} |-> Group(g, "dev", refs)]
        all == [g \in {"gAll"} |-> Group(g, "All", refs)]
        groups == [g \in (DOMAIN named) \cup (IF hasAll THEN DOMAIN all ELSE {}) |->
                      IF g \in DOMAIN named THEN named[g] ELSE all[g]]
        routes == [r \in {"r1"} \cup {others[i] : i \in DOMAIN others} |->
                      IF r = "r1" THEN Route(r, ref, routeGroups) ELSE Route(r, r, <<"g1">>)]
    IN [BareAccount(id) EXCEPT !.Peers = peers, !.Groups = groups, !.Routes = routes]

\* the account maps of the store files: account a1 alone or accounts a1 and
\* a2, each with or without its All group, with peers of different keys
StoreFiles ==
    LET A1s == {StoredAccount("a1", first, <<"p2">>, hasAll, routeGroups) :
                   first \in StoredPeers("k1", "p1"), hasAll \in BOOLEAN,
                   routeGroups \in {<<>>, <<"g1">>}}
        A2s == {StoredAccount("a2", first, <<>>, hasAll, <<>>) :
                   first \in StoredPeers("k3", "p3"), hasAll \in BOOLEAN}
    IN {[a \in {"a1"} |-> x] : x \in A1s}
          \cup {[a \in {"a1", "a2"} |-> IF a = "a1" THEN x ELSE y] : x \in A1s, y \in A2s}

\* before NewFileStore: there is a store file, and no store in memory yet
MigrationInit ==
    /\ disk \in StoreFiles
    /\ diskInstallationID = ""
    /\ Accounts = EmptyMap
    /\ SetupKeyID2AccountID = EmptyMap
    /\ PeerKeyID2AccountID = EmptyMap
    /\ PeerID2AccountID = EmptyMap
    /\ UserID2AccountID = EmptyMap
    /\ PrivateDomain2AccountID = EmptyMap
    /\ HashedPAT2TokenID = EmptyMap
    /\ TokenID2UserID = EmptyMap
    /\ InstallationID = ""
    /\ ioFailures = 0
    /\ aliased = {}
    /\ last = Call("", OK, FALSE)
    /\ accountLocks = EmptyMap
    /\ callers = [c \in FileCallers |-> IdleCaller]
    /\ profile = "migration"
    /\ Unused

\* NewFileStore, and again at every later start of the process
MigrationNext ==
    \E order \in Orders(disk), ids \in NewIDs(disk) : restore(order, ids) /\ UNCHANGED beside

MigrationSpec == MigrationInit /\ [][MigrationNext]_vars

-----------------------------------------------------------------------------
(* The lock methods *)

\* &sync.Mutex{} or &sync.RWMutex{}: the mutex caller c allocates in a call for account id
NewMutex(id, c) == <<id, c>>

\* fault: a load followed by a store, so that a later caller replaces the
\* mutex an earlier one registered
LoadOrStore_Replacing(m, key, value) == [map |-> MapPut(m, key, value), value |-> value]

\* sync.Map.LoadOrStore: the value the map holds for the key if there is one,
\* else the given value, which the map then holds; one atomic step
LoadOrStore(m, key, value) ==
    IF key \in DOMAIN m
    THEN [map |-> m, value |-> m[key]]
    ELSE [map |-> MapPut(m, key, value), value |-> value]

\* a step of a lock method changes no field of the store
LockStep(op) ==
    /\ last' = Call(op, OK, FALSE)
    /\ UNCHANGED <<Accounts, indices, disk, diskInstallationID, ioFailures, profile,
                   InstallationID, aliased>>

\* AcquireGlobalLock: globalAccountLock.Lock() returns when no caller holds it
AcquireGlobalLock(c) ==
    /\ callers[c].pc = "idle"
    /\ GlobalHolders = {}
    /\ callers' = [callers EXCEPT ![c].pc = "global"]
    /\ UNCHANGED accountLocks
    /\ LockStep("AcquireGlobalLock")

\* the release function of AcquireGlobalLock
ReleaseGlobalLock(c) ==
    /\ callers[c].pc = "global"
    /\ callers' = [callers EXCEPT ![c] = IdleCaller]
    /\ UNCHANGED accountLocks
    /\ LockStep("ReleaseGlobalLock")

\* the first half of an account lock acquisition: the mutex of the account is
\* loaded from accountLocks, or registered there; mode is how it will be locked
LoadAccountLock(c, accountID, mode, op) ==
    LET loaded == LoadOrStore(accountLocks, accountID, NewMutex(accountID, c)) IN
    /\ callers[c].pc = "idle"
    /\ accountLocks' = loaded.map
    /\ callers' = [callers EXCEPT ![c] = [pc |-> "locking", id |-> accountID,
                                          mode |-> mode, mtx |-> loaded.value]]
    /\ LockStep(op)

\* AcquireAccountWriteLock of the file store and of the sqlite store, up to mtx.Lock()
AcquireAccountWriteLock(c, accountID) ==
    LoadAccountLock(c, accountID, "write", "AcquireAccountWriteLock")

\* FileStore.AcquireAccountReadLock returns AcquireAccountWriteLock(accountID)
AcquireAccountReadLock(c, accountID) ==
    LoadAccountLock(c, accountID, "write", "AcquireAccountReadLock")

\* SqliteStore.AcquireAccountReadLock, up to mtx.RLock()
SqliteAcquireAccountReadLock(c, accountID) ==
    LoadAccountLock(c, accountID, "read", "AcquireAccountReadLock")

\* fault: Lock returns while readers hold the mutex
CanLock_IgnoringReaders(c) == Writers(callers[c].mtx) = {}

\* mtx.Lock() returns when no caller holds the mutex; mtx.RLock() returns when
\* no caller holds it for writing.  (A writer that waits may delay RLock
\* further, which takes behaviours away and adds none.)
CanLock(c) ==
    IF callers[c].mode = "write"
    THEN Holders(callers[c].mtx) = {}
    ELSE Writers(callers[c].mtx) = {}

\* the second half of an account lock acquisition: the mutex is locked and the
\* method returns the release function
LockReturn(c) ==
    /\ callers[c].pc = "locking"
    /\ CanLock(c)
    /\ callers' = [callers EXCEPT ![c].pc = "holding"]
    /\ UNCHANGED accountLocks
    /\ LockStep("LockReturn")

\* the release function of an account lock: mtx.Unlock() or mtx.RUnlock()
Unlock(c) ==
    /\ callers[c].pc = "holding"
    /\ callers' = [callers EXCEPT ![c] = IdleCaller]
    /\ UNCHANGED accountLocks
    /\ LockStep("Unlock")

-----------------------------------------------------------------------------
(* The file store with callers that take its advisory locks *)

LockInit ==
    /\ EmptyStore
    /\ Unused
    /\ profile = "locks"
    /\ callers = [c \in FileCallers |-> IdleCaller]

LockNext ==
    \/ LifeNext
    \/ \E c \in FileCallers : AcquireGlobalLock(c) /\ UNCHANGED beside
    \/ \E c \in FileCallers : ReleaseGlobalLock(c) /\ UNCHANGED beside
    \/ \E c \in FileCallers, accountID \in AccountIDs : AcquireAccountWriteLock(c, accountID)
          /\ UNCHANGED beside
    \/ \E c \in FileCallers, accountID \in AccountIDs : AcquireAccountReadLock(c, accountID)
          /\ UNCHANGED beside
    \/ \E c \in FileCallers : LockReturn(c) /\ UNCHANGED beside
    \/ \E c \in FileCallers : Unlock(c) /\ UNCHANGED beside

LockSpec == LockInit /\ [][LockNext]_vars

-----------------------------------------------------------------------------
(* The advisory locks of the sqlite store *)

\* the callers of the lock methods of the sqlite store
SqliteCallers == {"c1", "c2", "c3"}

SqliteLockInit ==
    /\ EmptyStore
    /\ Unused
    /\ profile = "sqlite"
    /\ callers = [c \in SqliteCallers |-> IdleCaller]

SqliteLockNext ==
    \/ \E c \in SqliteCallers : AcquireGlobalLock(c) /\ UNCHANGED beside
    \/ \E c \in SqliteCallers : ReleaseGlobalLock(c) /\ UNCHANGED beside
    \/ \E c \in SqliteCallers, accountID \in AccountIDs : AcquireAccountWriteLock(c, accountID)
          /\ UNCHANGED beside
    \/ \E c \in SqliteCallers, accountID \in AccountIDs :
          SqliteAcquireAccountReadLock(c, accountID) /\ UNCHANGED beside
    \/ \E c \in SqliteCallers : LockReturn(c) /\ UNCHANGED beside
    \/ \E c \in SqliteCallers : Unlock(c) /\ UNCHANGED beside

SqliteLockSpec == SqliteLockInit /\ [][SqliteLockNext]_vars

-----------------------------------------------------------------------------
(* The metrics collector of the file store *)

\* a store made with a telemetry.AppMetrics
WithMetrics == [collector |-> TRUE, reports |-> NoReports]

\* a call begins: nothing is reported yet
NewCall(m) == [m EXCEPT !.reports = NoReports]

\* if s.metrics != nil { s.metrics.StoreMetrics().CountPersistenceDuration(took) }
CountPersistenceDuration(m) ==
    IF m.collector THEN [m EXCEPT !.reports.persistence = @ + 1] ELSE m

\* if s.metrics != nil { s.metrics.StoreMetrics().CountGlobalLockAcquisitionDuration(took) }
CountGlobalLockAcquisitionDuration(m) ==
    IF m.collector THEN [m EXCEPT !.reports.globalLock = @ + 1] ELSE m

\* FileStore.persist returns the error of util.WriteJson before it reports
persistMetrics(ok, m) == IF ok THEN CountPersistenceDuration(m) ELSE m

\* a method that calls persist once when persists holds, and not at all otherwise
Persisting(persists, ok) ==
    /\ metrics' = IF persists THEN persistMetrics(ok, NewCall(metrics)) ELSE NewCall(metrics)
    /\ UNCHANGED <<mux, sqlite, http>>

\* a method, or the release function of a lock, that reports nothing
Unreported ==
    /\ metrics' = NewCall(metrics)
    /\ UNCHANGED <<mux, sqlite, http>>

\* the steps of AcquireAccountWriteLock after the first: the call goes on
SameCall == UNCHANGED <<metrics, mux, sqlite, http>>

MetricsInit ==
    /\ EmptyStore
    /\ metrics \in {NoMetrics, WithMetrics}
    /\ http = NoHttp
    /\ mux = [c \in FileCallers |-> OutsideMux]
    /\ db = EmptyDB
    /\ dbLast = SqliteCall("NewSqliteStore", OK, "")
    /\ profile \in MetricsProfiles
    /\ callers = [c \in FileCallers |-> IdleCaller]

MetricsNext ==
    \/ \E account \in AccountInputs(profile), ok \in BOOLEAN :
          SaveAccount(account, ok) /\ Persisting(account.Id # "", ok)
    \/ \E account \in AccountInputs(profile), ok \in BOOLEAN :
          DeleteAccount(account, ok) /\ Persisting(account.Id # "", ok)
    \/ \E ID \in InstallationIDs, ok \in BOOLEAN :
          SaveInstallationID(ID, ok) /\ Persisting(TRUE, ok)
    \/ \E ok \in BOOLEAN : Close(ok) /\ Persisting(TRUE, ok)
    \/ \E accountID \in AccountIDs : GetAccount(accountID) /\ Unreported
    \/ \E c \in FileCallers :
          /\ AcquireGlobalLock(c)
          /\ metrics' = CountGlobalLockAcquisitionDuration(NewCall(metrics))
          /\ UNCHANGED <<mux, sqlite, http>>
    \/ \E c \in FileCallers : ReleaseGlobalLock(c) /\ Unreported
    \/ \E c \in FileCallers, accountID \in AccountIDs :
          AcquireAccountWriteLock(c, accountID) /\ Unreported
    \/ \E c \in FileCallers, accountID \in AccountIDs :
          AcquireAccountReadLock(c, accountID) /\ Unreported
    \/ \E c \in FileCallers : LockReturn(c) /\ SameCall
    \/ \E c \in FileCallers : Unlock(c) /\ Unreported

MetricsSpec == MetricsInit /\ [][MetricsNext]_vars

-----------------------------------------------------------------------------
(* FileStore.mux: callers that run methods of the file store concurrently *)

\* every field of the file store and of its advisory locks
fileStore == <<Accounts, indices, disk, ioFailures, profile, aliased, last,
               InstallationID, diskInstallationID, callers, accountLocks>>

\* the callers that hold s.mux: between s.mux.Lock() and the deferred s.mux.Unlock()
MuxHolders == {c \in DOMAIN mux : mux[c].pc \in {"locked", "writing", "ran"}}

\* methods that begin with s.mux.Lock() and defer s.mux.Unlock()
MuxOps == {"SaveAccount", "SaveInstallationID", "GetAccount", "GetAllAccounts",
           "GetTokenIDByHashedToken", "GetUserByTokenID"}

\* s.mux.Lock() at the start of method op: it returns when no caller holds the mutex
MuxLock(c, op) ==
    /\ mux[c].pc = "idle"
    /\ MuxHolders = {}
    /\ mux' = [mux EXCEPT ![c] = [OutsideMux EXCEPT !.pc = "locked", !.op = op]]
    /\ UNCHANGED <<fileStore, sqlite, outside>>

\* the body of the method that caller c runs under the mutex
MuxBody(c) ==
    \/ mux[c].op = "SaveAccount" /\
          \E account \in AccountInputs(profile), ok \in BOOLEAN : SaveAccount(account, ok)
    \/ mux[c].op = "SaveInstallationID" /\
          \E ID \in InstallationIDs, ok \in BOOLEAN : SaveInstallationID(ID, ok)
    \/ mux[c].op = "GetAccount" /\ \E accountID \in AccountIDs : GetAccount(accountID)
    \/ mux[c].op = "GetAllAccounts" /\ GetAllAccounts
    \/ mux[c].op = "GetTokenIDByHashedToken" /\
          \E token \in HashedTokens : GetTokenIDByHashedToken(token)
    \/ mux[c].op = "GetUserByTokenID" /\ \E tokenID \in TokenIDs : GetUserByTokenID(tokenID)

\* Caller c runs the body of its method.  A write of s.InstallationID while
\* another caller reads the field is a data race on that read.
MuxRun(c) ==
    /\ mux[c].pc = "locked"
    /\ MuxBody(c)
    /\ mux' = [x \in DOMAIN mux |->
                 IF x = c THEN [mux[c] EXCEPT !.pc = "ran"]
                 ELSE IF mux[x].pc = "reading" /\ mux[c].op = "SaveInstallationID"
                      THEN [mux[x] EXCEPT !.raced = TRUE]
                      ELSE mux[x]]
    /\ UNCHANGED <<sqlite, outside>>

\* fault: the mutex is unlocked only when the method returns no error
MuxUnlock_OnSuccess(c) ==
    /\ mux[c].pc = "ran"
    /\ last.err = OK
    /\ mux' = [mux EXCEPT ![c] = OutsideMux]
    /\ UNCHANGED <<fileStore, sqlite, outside>>

\* the deferred s.mux.Unlock() when the method returns
MuxUnlock(c) ==
    /\ mux[c].pc = "ran"
    /\ mux' = [mux EXCEPT ![c] = OutsideMux]
    /\ UNCHANGED <<fileStore, sqlite, outside>>

\* what a read of a string yields that races with a write of it: a mix of the
\* pointer of one value and the length of the other
Torn == "torn"

\* GetInstallationID: return s.InstallationID, with no s.mux.Lock().  The caller
\* begins to read the field.
GetInstallationIDCall(c) ==
    /\ mux[c].pc = "idle"
    /\ mux' = [mux EXCEPT ![c] = [OutsideMux EXCEPT !.pc = "reading",
                                                     !.op = "GetInstallationID"]]
    /\ UNCHANGED <<fileStore, sqlite, outside>>

\* GetInstallationID returns the value of the field, or, when a write raced
\* with the read, the value before it, the value after it or a torn string
GetInstallationIDReturn(c) ==
    /\ mux[c].pc = "reading"
    /\ \E value \in IF mux[c].raced
                     THEN InstallationIDs \cup {"", Torn}
                     ELSE {InstallationID} :
          mux' = [mux EXCEPT ![c] = [OutsideMux EXCEPT !.value = value]]
    /\ UNCHANGED <<fileStore, sqlite, outside>>

MuxInit ==
    /\ EmptyStore
    /\ Unused
    /\ profile = "mux"
    /\ callers = [c \in FileCallers |-> IdleCaller]

MuxNext ==
    \/ \E c \in FileCallers, op \in MuxOps : MuxLock(c, op)
    \/ \E c \in FileCallers : MuxRun(c)
    \/ \E c \in FileCallers : MuxUnlock(c)
    \/ \E c \in FileCallers : GetInstallationIDCall(c)
    \/ \E c \in FileCallers : GetInstallationIDReturn(c)

MuxSpec == MuxInit /\ [][MuxNext]_vars

-----------------------------------------------------------------------------
(* Progress: callers that wait for the locks of the file store *)

\* AcquireGlobalLock is called: the caller waits in globalAccountLock.Lock()
CallAcquireGlobalLock(c) ==
    /\ callers[c].pc = "idle"
    /\ callers' = [callers EXCEPT ![c].pc = "acquiring"]
    /\ UNCHANGED accountLocks
    /\ LockStep("CallAcquireGlobalLock")

\* globalAccountLock.Lock() returns to a caller that waits when no caller
\* holds the mutex, and AcquireGlobalLock returns the release function
GlobalLockReturn(c) ==
    /\ callers[c].pc = "acquiring"
    /\ GlobalHolders = {}
    /\ callers' = [callers EXCEPT ![c].pc = "global"]
    /\ UNCHANGED accountLocks
    /\ LockStep("AcquireGlobalLock")

\* a method that begins with s.mux.Lock() is called: the caller waits in Lock()
MuxCall(c, op) ==
    /\ mux[c].pc = "idle"
    /\ mux' = [mux EXCEPT ![c] = [OutsideMux EXCEPT !.pc = "calling", !.op = op]]
    /\ UNCHANGED <<fileStore, sqlite, outside>>

\* fault: s.mux.Lock() returns while another caller holds the mutex
MuxEnter_Unguarded(c) ==
    /\ mux[c].pc = "calling"
    /\ mux' = [mux EXCEPT ![c].pc = "locked"]
    /\ UNCHANGED <<fileStore, sqlite, outside>>

\* s.mux.Lock() returns to a caller that waits when no caller holds the mutex
MuxEnter(c) ==
    /\ mux[c].pc = "calling"
    /\ MuxHolders = {}
    /\ mux' = [mux EXCEPT ![c].pc = "locked"]
    /\ UNCHANGED <<fileStore, sqlite, outside>>

LiveInit ==
    /\ EmptyStore
    /\ Unused
    /\ profile \in LiveProfiles
    /\ callers = [c \in FileCallers |-> IdleCaller]

\* the callers of the workload "advisory" are in the lock methods
OnAdvisory == profile = "advisory"

\* the callers of the workload "internal" are in the methods that lock s.mux
OnInternal == profile = "internal"

LiveNext ==
    \/ \E c \in FileCallers : OnAdvisory /\ CallAcquireGlobalLock(c) /\ UNCHANGED beside
    \/ \E c \in FileCallers : OnAdvisory /\ GlobalLockReturn(c) /\ UNCHANGED beside
    \/ \E c \in FileCallers : OnAdvisory /\ ReleaseGlobalLock(c) /\ UNCHANGED beside
    \/ \E c \in FileCallers, accountID \in AccountIDs :
          OnAdvisory /\ AcquireAccountWriteLock(c, accountID) /\ UNCHANGED beside
    \/ \E c \in FileCallers, accountID \in AccountIDs :
          OnAdvisory /\ AcquireAccountReadLock(c, accountID) /\ UNCHANGED beside
    \/ \E c \in FileCallers : OnAdvisory /\ LockReturn(c) /\ UNCHANGED beside
    \/ \E c \in FileCallers : OnAdvisory /\ Unlock(c) /\ UNCHANGED beside
    \/ \E c \in FileCallers, op \in MuxOps : OnInternal /\ MuxCall(c, op)
    \/ \E c \in FileCallers : OnInternal /\ MuxEnter(c)
    \/ \E c \in FileCallers : OnInternal /\ MuxRun(c)
    \/ \E c \in FileCallers : OnInternal /\ MuxUnlock(c)

\* A caller that holds an advisory lock calls its release function, and a
\* caller that runs a method under s.mux goes on to its end: the scheduler
\* leaves no goroutine that can run waiting for ever.  A caller that waits in
\* Lock() of a sync.Mutex gets the mutex when it is unlocked again and again:
\* a waiter that fails to get it for a millisecond is handed it next.
LiveFairness ==
    \A c \in FileCallers :
        /\ WF_vars(OnAdvisory /\ ReleaseGlobalLock(c) /\ UNCHANGED beside)
        /\ WF_vars(OnAdvisory /\ Unlock(c) /\ UNCHANGED beside)
        /\ SF_vars(OnAdvisory /\ GlobalLockReturn(c) /\ UNCHANGED beside)
        /\ SF_vars(OnAdvisory /\ LockReturn(c) /\ UNCHANGED beside)
        /\ SF_vars(OnInternal /\ MuxEnter(c))
        /\ WF_vars(OnInternal /\ MuxRun(c))
        /\ WF_vars(OnInternal /\ MuxUnlock(c))

LiveSpec == LiveInit /\ [][LiveNext]_vars /\ LiveFairness

-----------------------------------------------------------------------------
(* Lookups while accounts are written: the writes in two steps *)

\* the methods that write an account and its index entries
WriteOps == {"SaveAccount", "DeleteAccount"}

\* the lookups of an account
LookupOps == {"GetAccount", "GetAccountByPeerID", "GetAccountByPeerPubKey",
              "GetAccountByUser", "GetAccountBySetupKey"}

\* SaveAccount up to s.Accounts[accountCopy.Id] = accountCopy, before the
\* index entries are written
SaveAccountBegin(account) ==
    /\ Accounts' = IF account.Id = "" THEN Accounts
                   ELSE StoreAccount(Accounts, accountCopy(Pointer(account, "arg")).acct)
    /\ UNCHANGED indices

\* DeleteAccount up to the last delete of an index entry, before
\* delete(s.Accounts, account.Id)
DeleteAccountBegin(account) ==
    /\ IF account.Id = ""
       THEN UNCHANGED indices
       ELSE /\ SetupKeyID2AccountID' = DeleteSetupKeyIndex(SetupKeyID2AccountID, account)
            /\ PeerKeyID2AccountID' = DeletePeerKeyIndex(PeerKeyID2AccountID, account)
            /\ PeerID2AccountID' = DeletePeerIDIndex(PeerID2AccountID, account)
            /\ TokenID2UserID' = DeleteTokenIndex(TokenID2UserID, account)
            /\ HashedPAT2TokenID' = DeleteHashedTokenIndex(HashedPAT2TokenID, account)
            /\ UserID2AccountID' = DeleteUserIndex(UserID2AccountID, account)
            /\ PrivateDomain2AccountID' = DeleteDomainIndex(PrivateDomain2AccountID, account)
    /\ UNCHANGED Accounts

\* caller c, under s.mux, runs the first part of SaveAccount or DeleteAccount
WriteBegin(c) ==
    /\ mux[c].pc = "locked"
    /\ mux[c].op \in WriteOps
    /\ \E account \in AccountInputs(profile) :
          /\ IF mux[c].op = "SaveAccount"
             THEN SaveAccountBegin(account)
             ELSE DeleteAccountBegin(account)
          /\ mux' = [mux EXCEPT ![c].pc = "writing", ![c].arg = account]
    /\ UNCHANGED <<disk, diskInstallationID, ioFailures, profile, aliased, last,
                   InstallationID, advisory, sqlite, outside>>

\* caller c runs the rest of the method: what it adds to the first part is
\* what the whole method does, for the writes of the first part are repeated
\* with the same values
WriteEnd(c) ==
    /\ mux[c].pc = "writing"
    /\ \E ok \in BOOLEAN :
          IF mux[c].op = "SaveAccount"
          THEN SaveAccount(mux[c].arg, ok)
          ELSE DeleteAccount(mux[c].arg, ok)
    /\ mux' = [mux EXCEPT ![c].pc = "ran"]
    /\ UNCHANGED <<sqlite, outside>>

\* caller c, under s.mux, runs a lookup
LookupRun(c) ==
    /\ mux[c].pc = "locked"
    /\ \/ mux[c].op = "GetAccount" /\ \E accountID \in AccountIDs : GetAccount(accountID)
       \/ mux[c].op = "GetAccountByPeerID" /\
             \E peerID \in PeerIDs : GetAccountByPeerID(peerID)
       \/ mux[c].op = "GetAccountByPeerPubKey" /\
             \E peerKey \in PeerKeys : GetAccountByPeerPubKey(peerKey)
       \/ mux[c].op = "GetAccountByUser" /\ \E userID \in UserIDs : GetAccountByUser(userID)
       \/ mux[c].op = "GetAccountBySetupKey" /\
             \E setupKey \in SetupKeyIDs : GetAccountBySetupKey(setupKey)
    /\ mux' = [mux EXCEPT ![c].pc = "ran"]
    /\ UNCHANGED <<sqlite, outside>>

AtomicInit ==
    /\ EmptyStore
    /\ Unused
    /\ profile = "atomic"
    /\ callers = [c \in FileCallers |-> IdleCaller]

AtomicNext ==
    \/ \E c \in FileCallers, op \in WriteOps \cup LookupOps : MuxCall(c, op)
    \/ \E c \in FileCallers : MuxEnter(c)
    \/ \E c \in FileCallers : WriteBegin(c)
    \/ \E c \in FileCallers : WriteEnd(c)
    \/ \E c \in FileCallers : LookupRun(c)
    \/ \E c \in FileCallers : MuxUnlock(c)

AtomicSpec == AtomicInit /\ [][AtomicNext]_vars

-----------------------------------------------------------------------------
(* The policies handler of the HTTP API *)

\* the rule actions and the rule protocols of the API
PolicyRuleActions == {"accept", "drop"}
PortlessProtocols == {"all", "icmp"}
PortProtocols == {"tcp", "udp"}

\* The workloads of the client of the policies handler.  "validate": requests
\* to create or to update a policy whose rules vary in action, protocol, ports
\* and direction; "respond": requests whose rules vary in their groups, and
\* requests for a stored policy of two rules, some of whose groups are gone.
HttpProfiles == {"validate", "respond"}

\* the account of the requests: groups g1 and g2, and the policy pol1
HttpAccount ==
    [Id |-> "a1", Policies |-> {"pol1"},
     Groups |-> [g \in {"g1", "g2"} |->
                   Group(g, g, IF g = "g1" THEN <<"p1">> ELSE <<>>)]]

\* the ports of the requests, as strings of ASCII codes: "80", "65535", "+7",
\* and "0", "65536", "-1", "x"
PortStrings ==
    {<<56, 48>>, <<54, 53, 53, 51, 53>>, <<43, 55>>,
     <<48>>, <<54, 53, 53, 51, 54>>, <<45, 49>>, <<120>>}

PortLists == {<<>>} \cup {<<v>> : v \in PortStrings} \cup {<<<<56, 48>>, <<120>>>>}

\* the group lists of the rules: g3 is no group of the account
GroupLists == {<<>>, <<"g1">>, <<"g2">>, <<"g3">>, <<"g1", "g2">>, <<"g3", "g1">>}

\* api.PolicyRuleUpdate
PolicyRuleUpdate(action, protocol, ports, bidirectional, sources, destinations) ==
    [Name |-> "r", Action |-> action, Protocol |-> protocol, Ports |-> ports,
     Bidirectional |-> bidirectional, Sources |-> sources, Destinations |-> destinations]

\* a rule that accepts all traffic between its groups
OpenRule(sources, destinations) ==
    PolicyRuleUpdate("accept", "all", <<>>, TRUE, sources, destinations)

ValidateRules ==
    {PolicyRuleUpdate(action, protocol, ports, bidirectional, <<>>, <<>>) :
        action \in PolicyRuleActions \cup {"log"},
        protocol \in PortlessProtocols \cup PortProtocols \cup {"sctp"},
        ports \in PortLists, bidirectional \in BOOLEAN}

RespondRules == {OpenRule(sources, destinations) : sources \in GroupLists,
                                                   destinations \in GroupLists}

\* api.PutApiPoliciesPolicyIdJSONRequestBody: the name and the rules
PolicyUpdate(name, rules) == [Name |-> name, Rules |-> rules]

\* the bodies of the requests, by workload
PolicyUpdates(prof) ==
    IF prof = "validate"
    THEN {PolicyUpdate(name, rules) :
             name \in {"", "web"},
             rules \in {<<>>} \cup {<<r>> : r \in ValidateRules}
                         \cup {<<OpenRule(<<>>, <<>>), r>> : r \in ValidateRules}}
    ELSE {PolicyUpdate("web", rules) :
             rules \in {<<r>> : r \in RespondRules}
                         \cup {<<r1, r2>> : r1 \in RespondRules, r2 \in RespondRules}}

\* server.PolicyRule made of a rule of a request, with the given groups
PolicyRule(policyID, r, sources, destinations) ==
    [ID |-> policyID, Name |-> r.Name, Action |-> r.Action, Protocol |-> r.Protocol,
     Ports |-> r.Ports, Bidirectional |-> r.Bidirectional,
     Sources |-> sources, Destinations |-> destinations]

\* server.Policy
Policy(policyID, name, rules) == [ID |-> policyID, Name |-> name, Rules |-> rules]

\* the policies that the account manager returns in the workload "respond":
\* rules whose groups were stored as given, one of which is gone since
StoredPolicies ==
    {Policy("pol1", "web",
            [i \in DOMAIN u.Rules |->
                PolicyRule("pol1", u.Rules[i], u.Rules[i].Sources, u.Rules[i].Destinations)]) :
        u \in PolicyUpdates("respond")}

\* a request: the handler it is routed to, the policy ID of the path, whether
\* the body decodes and what it decodes to, and what accountManager.GetPolicy
\* returns for it: a policy, or none and an error
HttpRequest(handler, policyID, parses, body, stored) ==
    [handler |-> handler, policyID |-> policyID, parses |-> parses, body |-> body,
     stored |-> stored]

\* the requests of a workload
HttpRequests(prof) ==
    {HttpRequest("CreatePolicy", "", TRUE, body, <<>>) : body \in PolicyUpdates(prof)}
       \cup {HttpRequest("CreatePolicy", "", FALSE, PolicyUpdate("", <<>>), <<>>)}
       \cup (IF prof = "validate"
             THEN {HttpRequest("UpdatePolicy", policyID, TRUE, body, <<>>) :
                      policyID \in {"", "pol1", "pol2"}, body \in PolicyUpdates(prof)}
             ELSE {HttpRequest("GetPolicy", policyID, TRUE, PolicyUpdate("", <<>>), stored) :
                      policyID \in {"", "pol1"},
                      stored \in {<<>>} \cup {<<policy>> : policy \in StoredPolicies}})

\* the IDs that xid.New() generates for a new policy
PolicyXids == {"x1"}

\* the status of a body that does not decode, and the kind of the error that
\* the account manager returns when it refuses a call
BadRequest == "BadRequest"
PermissionDenied == "PermissionDenied"

\* the value of a sequence of decimal digits
RECURSIVE DigitsValue(_)
DigitsValue(digits) ==
    IF digits = <<>> THEN 0
    ELSE 10 * DigitsValue(SubSeq(digits, 1, Len(digits) - 1)) + (digits[Len(digits)] - 48)

\* strconv.Atoi: an optional sign and decimal digits, or an error
Atoi(v) ==
    LET signed == v # <<>> /\ v[1] \in {43, 45}
        digits == IF signed THEN Tail(v) ELSE v
    IN IF digits = <<>> \/ \E i \in DOMAIN digits : digits[i] \notin 48..57
       THEN [err |-> TRUE, port |-> 0]
       ELSE [err |-> FALSE,
             port |-> IF signed /\ v[1] = 45 THEN 0 - DigitsValue(digits)
                      ELSE DigitsValue(digits)]

\* groupMinimumsToStrings: the IDs that are groups of the account, in order
groupMinimumsToStrings(account, gm) == SelectSeq(gm, LAMBDA g : g \in DOMAIN account.Groups)

\* fault: a rule of one direction for TCP or UDP is taken without ports
policyRule_AnyFlow(account, policyID, r) ==
    LET pr == PolicyRule(policyID, r, groupMinimumsToStrings(account, r.Sources),
                         groupMinimumsToStrings(account, r.Destinations))
    IN IF \/ r.Action \notin PolicyRuleActions
          \/ r.Protocol \notin PortlessProtocols \cup PortProtocols
          \/ \E i \in DOMAIN r.Ports :
                Atoi(r.Ports[i]).err \/ Atoi(r.Ports[i]).port < 1
                   \/ Atoi(r.Ports[i]).port > 65535
          \/ (pr.Protocol \in PortlessProtocols /\ Len(pr.Ports) # 0)
          \/ (pr.Protocol \in PortlessProtocols /\ ~pr.Bidirectional)
       THEN [err |-> InvalidArgument, rule |-> pr]
       ELSE [err |-> OK, rule |-> pr]

\* savePolicy, one pass of its loop over req.Rules: the rule of the policy
\* that is made of rule r of the request, or the error that ends the handler
policyRule(account, policyID, r) ==
    LET pr == PolicyRule(policyID, r, groupMinimumsToStrings(account, r.Sources),
                         groupMinimumsToStrings(account, r.Destinations))
    IN IF \/ r.Action \notin PolicyRuleActions
          \/ r.Protocol \notin PortlessProtocols \cup PortProtocols
          \/ \E i \in DOMAIN r.Ports :
                Atoi(r.Ports[i]).err \/ Atoi(r.Ports[i]).port < 1
                   \/ Atoi(r.Ports[i]).port > 65535
          \/ (pr.Protocol \in PortlessProtocols /\ Len(pr.Ports) # 0)
          \/ (pr.Protocol \in PortlessProtocols /\ ~pr.Bidirectional)
          \/ (pr.Protocol \in PortProtocols /\ ~pr.Bidirectional /\ Len(pr.Ports) = 0)
       THEN [err |-> InvalidArgument, rule |-> pr]
       ELSE [err |-> OK, rule |-> pr]

\* api.GroupMinimum of a group
GroupMinimum(group) ==
    [Id |-> group.ID, Name |-> group.Name, PeersCount |-> Len(group.Peers)]

\* toPolicyResponse, the loop over r.Sources: a group that the cache has is
\* skipped, a group of the account is listed and cached
RECURSIVE ruleSources(_, _, _, _)
ruleSources(account, gids, cache, listed) ==
    IF gids = <<>> THEN [cache |-> cache, listed |-> listed]
    ELSE LET gid == Head(gids) IN
         IF gid \in DOMAIN cache
         THEN ruleSources(account, Tail(gids), cache, listed)
         ELSE IF gid \in DOMAIN account.Groups
              THEN ruleSources(account, Tail(gids),
                               MapPut(cache, gid, GroupMinimum(account.Groups[gid])),
                               Append(listed, GroupMinimum(account.Groups[gid])))
              ELSE ruleSources(account, Tail(gids), cache, listed)

\* toPolicyResponse, the loop over r.Destinations: a group that the cache has
\* is listed from the cache, a group of the account is listed and cached
RECURSIVE ruleDestinations(_, _, _, _)
ruleDestinations(account, gids, cache, listed) ==
    IF gids = <<>> THEN [cache |-> cache, listed |-> listed]
    ELSE LET gid == Head(gids) IN
         IF gid \in DOMAIN cache
         THEN ruleDestinations(account, Tail(gids), cache, Append(listed, cache[gid]))
         ELSE IF gid \in DOMAIN account.Groups
              THEN ruleDestinations(account, Tail(gids),
                                    MapPut(cache, gid, GroupMinimum(account.Groups[gid])),
                                    Append(listed, GroupMinimum(account.Groups[gid])))
              ELSE ruleDestinations(account, Tail(gids), cache, listed)

\* toPolicyResponse, the loop over policy.Rules with the cache of the call
RECURSIVE policyResponseRules(_, _, _, _)
policyResponseRules(account, rules, cache, out) ==
    IF rules = <<>> THEN out
    ELSE LET r == Head(rules)
             sources == ruleSources(account, r.Sources, cache, <<>>)
             destinations == ruleDestinations(account, r.Destinations, sources.cache, <<>>)
             rule == [Id |-> r.ID, Name |-> r.Name, Bidirectional |-> r.Bidirectional,
                      Protocol |-> r.Protocol, Action |-> r.Action, Ports |-> r.Ports,
                      Sources |-> sources.listed, Destinations |-> destinations.listed]
         IN policyResponseRules(account, Tail(rules), destinations.cache, Append(out, rule))

toPolicyResponse(account, policy) ==
    [Id |-> policy.ID, Name |-> policy.Name,
     Rules |-> policyResponseRules(account, policy.Rules, EmptyMap, <<>>)]

\* the handler has a request that it has not answered
Pending(handler) == http.request.handler = handler /\ http.response = NoResponse

\* util.WriteError, util.WriteErrorResponse or util.WriteJSONObject: the
\* response; saved is the policy that accountManager.SavePolicy has saved
Respond(status, body, saved) ==
    /\ http' = [http EXCEPT !.response = [status |-> status, body |-> body],
                            !.saved = saved]
    /\ UNCHANGED <<fileStore, mux, sqlite, metrics>>

\* savePolicy; id is xid.New() and ok whether accountManager.SavePolicy succeeds
savePolicy(policyID, id, ok) ==
    LET req == http.request.body
        ID == IF policyID = "" THEN id ELSE policyID
        made == [i \in DOMAIN req.Rules |-> policyRule(http.account, ID, req.Rules[i])]
        policy == Policy(ID, req.Name, [i \in DOMAIN made |-> made[i].rule])
        resp == toPolicyResponse(http.account, policy)
    IN IF ~http.request.parses THEN Respond(BadRequest, <<>>, <<>>)
       ELSE IF req.Name = "" THEN Respond(InvalidArgument, <<>>, <<>>)
       ELSE IF Len(req.Rules) = 0 THEN Respond(InvalidArgument, <<>>, <<>>)
       ELSE IF \E i \in DOMAIN made : made[i].err # OK
            THEN Respond(InvalidArgument, <<>>, <<>>)
       ELSE IF ~ok THEN Respond(PermissionDenied, <<>>, <<>>)
       ELSE IF Len(resp.Rules) = 0 THEN Respond(Internal, <<>>, <<policy>>)
       ELSE Respond(OK, <<resp>>, <<policy>>)

\* CreatePolicy; authorized is whether GetAccountFromToken returns the account
CreatePolicy(authorized, id, ok) ==
    /\ Pending("CreatePolicy")
    /\ IF ~authorized THEN Respond(PermissionDenied, <<>>, <<>>)
       ELSE savePolicy("", id, ok)

UpdatePolicy(authorized, id, ok) ==
    /\ Pending("UpdatePolicy")
    /\ IF ~authorized THEN Respond(PermissionDenied, <<>>, <<>>)
       ELSE IF Len(http.request.policyID) = 0 THEN Respond(InvalidArgument, <<>>, <<>>)
       ELSE IF http.request.policyID \notin http.account.Policies
            THEN Respond(NotFound, <<>>, <<>>)
       ELSE savePolicy(http.request.policyID, id, ok)

\* GetPolicy for the method GET
GetPolicy(authorized) ==
    /\ Pending("GetPolicy")
    /\ IF ~authorized THEN Respond(PermissionDenied, <<>>, <<>>)
       ELSE IF Len(http.request.policyID) = 0 THEN Respond(InvalidArgument, <<>>, <<>>)
       ELSE IF http.request.stored = <<>> THEN Respond(NotFound, <<>>, <<>>)
       ELSE LET resp == toPolicyResponse(http.account, http.request.stored[1]) IN
            IF Len(resp.Rules) = 0 THEN Respond(Internal, <<>>, <<>>)
            ELSE Respond(OK, <<resp>>, <<>>)

HttpInit ==
    /\ EmptyStore
    /\ metrics = NoMetrics
    /\ mux = [c \in FileCallers |-> OutsideMux]
    /\ db = EmptyDB
    /\ dbLast = SqliteCall("NewSqliteStore", OK, "")
    /\ profile \in HttpProfiles
    /\ callers = [c \in FileCallers |-> IdleCaller]
    /\ \E request \in HttpRequests(profile) :
          http = [NoHttp EXCEPT !.account = HttpAccount, !.request = request]

HttpNext ==
    \/ \E authorized \in BOOLEAN, id \in PolicyXids, ok \in BOOLEAN :
          CreatePolicy(authorized, id, ok)
    \/ \E authorized \in BOOLEAN, id \in PolicyXids, ok \in BOOLEAN :
          UpdatePolicy(authorized, id, ok)
    \/ \E authorized \in BOOLEAN : GetPolicy(authorized)

HttpSpec == HttpInit /\ [][HttpNext]_vars

-----------------------------------------------------------------------------
(* The sqlite store: tables and queries *)

\* a row of a table of owned entities: the foreign key to the owner
\* (account_id, user_id, policy_id) and the entity
Row(owner, entity) == [owner |-> owner, row |-> entity]

\* the primary keys of the rows of a table whose foreign key is owner
RowsOf(table, owner) == {k \in DOMAIN table : table[k].owner = owner}

\* INSERT ... ON CONFLICT DO UPDATE SET (all columns): the rows are written
\* under their primary keys, over whatever rows had those keys
Upsert(table, rows) ==
    [k \in (DOMAIN table) \cup (DOMAIN rows) |-> IF k \in DOMAIN rows THEN rows[k] ELSE table[k]]

\* the order of the primary keys, by which First returns the first match
SortedKeys == <<"", "a1", "a2", "p1", "p2", "t1", "u1">>

\* db.First: of the rows that match, the one with the least primary key
First(keys) ==
    CHOOSE k \in keys :
       \A x \in keys :
          \E i, j \in DOMAIN SortedKeys : SortedKeys[i] = k /\ SortedKeys[j] = x /\ i <= j

\* an error of gorm or of the database, which is no status error
DBError == "DBError"

\* gorm.ErrMissingWhereClause: gorm runs no DELETE without a condition, and
\* Delete(account) of an account with an empty primary key has none
ErrMissingWhereClause == DBError

\* the loops at the start of SaveAccount: the entities of the account with
\* the keys of its maps as their IDs
SetIDs(account) ==
    [account EXCEPT
       !.Peers = [k \in DOMAIN account.Peers |-> [account.Peers[k] EXCEPT !.ID = k]],
       !.Users = [k \in DOMAIN account.Users |->
                    [account.Users[k] EXCEPT
                       !.Id = k,
                       !.PATs = [t \in DOMAIN account.Users[k].PATs |->
                                   [account.Users[k].PATs[t] EXCEPT !.ID = t]]]],
       !.Groups = [k \in DOMAIN account.Groups |-> [account.Groups[k] EXCEPT !.ID = k]],
       !.Routes = [k \in DOMAIN account.Routes |-> [account.Routes[k] EXCEPT !.ID = k]],
       !.NameServerGroups = [k \in DOMAIN account.NameServerGroups |->
                               [account.NameServerGroups[k] EXCEPT !.ID = k]]]

\* tx.Select(clause.Associations).Delete(values, "account_id = ?", id): the
\* rows of the account are deleted, those with the primary keys of the values
\* when there are values; of the rows of the association, those of the
\* primary keys of the values, for gorm deletes associations by the keys it
\* is given
DeleteWithAssociations(d, table, association, keys, id) ==
    LET gone == IF keys = {} THEN RowsOf(d[table], id) ELSE RowsOf(d[table], id) \cap keys
    IN [d EXCEPT
          ![table] = MapDeleteAll(@, gone),
          ![association] = MapDeleteAll(@, {k \in DOMAIN @ : @[k].owner \in keys})]

\* the tables of the entities that an account has many of
AccountAssociations ==
    {"setup_keys", "peers", "users", "groups", "routes", "name_server_groups", "policies"}

\* tx.Select(clause.Associations).Delete(account): the rows of the account in
\* the tables of its associations, and its own row.  The rows these rows own
\* stay: the nested delete has no primary keys to go by.
DeleteAccountRow(d, id) ==
    [t \in DOMAIN d |->
        IF t \in AccountAssociations THEN MapDeleteAll(d[t], RowsOf(d[t], id))
        ELSE IF t = "accounts" THEN MapDelete(d[t], id)
        ELSE d[t]]

\* the three deletes of the transactions of SaveAccount and DeleteAccount;
\* usersG is account.UsersG
DeleteAggregate(d, account, usersG) ==
    DeleteAccountRow(
       DeleteWithAssociations(
          DeleteWithAssociations(d, "policies", "policy_rules",
                                 DOMAIN account.Policies, account.Id),
          "users", "personal_access_tokens", usersG, account.Id),
       account.Id)

\* Create(account) with FullSaveAssociations and OnConflict{UpdateAll}: the
\* row of the account and a row for every entity it holds, each with the key
\* of its owner
CreateAccount(d, account) ==
    [d EXCEPT
       !.accounts = Upsert(@, [k \in {account.Id} |->
                                 [Domain |-> account.Domain,
                                  DomainCategory |-> account.DomainCategory,
                                  IsDomainPrimaryAccount |-> account.IsDomainPrimaryAccount]]),
       !.setup_keys = Upsert(@, [k \in account.SetupKeys |-> Row(account.Id, k)]),
       !.peers = Upsert(@, [k \in DOMAIN account.Peers |-> Row(account.Id, account.Peers[k])]),
       !.users = Upsert(@, [k \in DOMAIN account.Users |->
                              Row(account.Id, [account.Users[k] EXCEPT !.PATs = EmptyMap])]),
       !.personal_access_tokens =
           Upsert(@, [t \in UNION {DOMAIN account.Users[u].PATs : u \in DOMAIN account.Users} |->
                        LET u == CHOOSE x \in DOMAIN account.Users :
                                    t \in DOMAIN account.Users[x].PATs
                        IN Row(u, account.Users[u].PATs[t])]),
       !.groups = Upsert(@, [k \in DOMAIN account.Groups |->
                               Row(account.Id, account.Groups[k])]),
       !.routes = Upsert(@, [k \in DOMAIN account.Routes |->
                               Row(account.Id, account.Routes[k])]),
       !.name_server_groups = Upsert(@, [k \in DOMAIN account.NameServerGroups |->
                                           Row(account.Id, account.NameServerGroups[k])]),
       !.policies = Upsert(@, [k \in DOMAIN account.Policies |->
                                 Row(account.Id, [account.Policies[k] EXCEPT !.Rules = {}])]),
       !.policy_rules =
           Upsert(@, [r \in UNION {account.Policies[k].Rules : k \in DOMAIN account.Policies} |->
                        Row(CHOOSE k \in DOMAIN account.Policies : r \in account.Policies[k].Rules,
                            r)])]

\* SqliteStore.SaveAccount with an account object whose gorm slices (PeersG,
\* UsersG, ...) are empty, as those of a new object and of an object that
\* GetAccount returned are.  There is no check of account.Id: with an empty ID
\* the third delete has no condition and the transaction ends with its error.
\* ok: the transaction commits.
SaveAccountTx(d, account, ok) ==
    LET a == SetIDs(account) IN
    IF account.Id = "" THEN [db |-> d, err |-> ErrMissingWhereClause]
    ELSE IF ~ok THEN [db |-> d, err |-> DBError]
    ELSE [db |-> CreateAccount(DeleteAggregate(d, a, DOMAIN a.Users), a), err |-> OK]

SqliteSaveAccount(account, ok) ==
    /\ db' = SaveAccountTx(db, account, ok).db
    /\ dbLast' = SqliteCall("SaveAccount", SaveAccountTx(db, account, ok).err, "")

\* SqliteStore.DeleteAccount.  saved: the account object was passed to
\* SaveAccount before, which filled its UsersG; the UsersG of an object that
\* GetAccount returned is nil.
SqliteDeleteAccount(account, saved, ok) ==
    IF account.Id = ""
    THEN /\ dbLast' = SqliteCall("DeleteAccount", ErrMissingWhereClause, "")
         /\ UNCHANGED db
    ELSE IF ~ok
    THEN /\ dbLast' = SqliteCall("DeleteAccount", DBError, "")
         /\ UNCHANGED db
    ELSE /\ db' = DeleteAggregate(db, account, IF saved THEN DOMAIN account.Users ELSE {})
         /\ dbLast' = SqliteCall("DeleteAccount", OK, "")

\* the user of a row of the users table, with the tokens that Preload("PATsG") loads
LoadUser(d, u) ==
    [d.users[u].row EXCEPT
       !.PATs = [t \in RowsOf(d.personal_access_tokens, u) |-> d.personal_access_tokens[t].row]]

\* SqliteStore.GetAccount: the row of the account, its associations by
\* account_id, the tokens of its users and the rules of its policies
LoadAccount(d, id) ==
    [Id |-> id,
     Domain |-> d.accounts[id].Domain,
     DomainCategory |-> d.accounts[id].DomainCategory,
     IsDomainPrimaryAccount |-> d.accounts[id].IsDomainPrimaryAccount,
     SetupKeys |-> {d.setup_keys[k].row : k \in RowsOf(d.setup_keys, id)},
     Peers |-> [k \in RowsOf(d.peers, id) |-> d.peers[k].row],
     Users |-> [k \in RowsOf(d.users, id) |-> LoadUser(d, k)],
     Groups |-> [k \in RowsOf(d.groups, id) |-> d.groups[k].row],
     Routes |-> [k \in RowsOf(d.routes, id) |-> d.routes[k].row],
     Policies |-> [k \in RowsOf(d.policies, id) |->
                     [d.policies[k].row EXCEPT !.Rules = RowsOf(d.policy_rules, k)]],
     NameServerGroups |-> [k \in RowsOf(d.name_server_groups, id) |->
                             d.name_server_groups[k].row]]

\* the result of a query of the sqlite store: the error kind and the value
Result(err, value) == [err |-> err, value |-> value]

SqliteGetAccountResult(accountID) ==
    IF accountID \in DOMAIN db.accounts
    THEN Result(OK, LoadAccount(db, accountID))
    ELSE Result(NotFound, NilAccount)

\* a query: the database stays as it is
SqliteQuery(op, r) ==
    /\ dbLast' = SqliteCall(op, r.err, r.value)
    /\ UNCHANGED db

SqliteGetAccount(accountID) == SqliteQuery("GetAccount", SqliteGetAccountResult(accountID))

\* the lookups that find a row by a column, read its account_id and return
\* GetAccount of it: NotFound without a row and with an empty account_id
SqliteAccountOfRows(table, matches) ==
    IF matches = {} THEN Result(NotFound, NilAccount)
    ELSE IF table[First(matches)].owner = "" THEN Result(NotFound, NilAccount)
    ELSE SqliteGetAccountResult(table[First(matches)].owner)

SqliteGetAccountByUser(userID) ==
    SqliteQuery("GetAccountByUser",
                SqliteAccountOfRows(db.users, {k \in DOMAIN db.users : k = userID}))

SqliteGetAccountByPeerID(peerID) ==
    SqliteQuery("GetAccountByPeerID",
                SqliteAccountOfRows(db.peers, {k \in DOMAIN db.peers : k = peerID}))

\* the peers of a public key
PeersOfKey(peerKey) == {k \in DOMAIN db.peers : db.peers[k].row.Key = peerKey}

SqliteGetAccountByPeerPubKey(peerKey) ==
    SqliteQuery("GetAccountByPeerPubKey", SqliteAccountOfRows(db.peers, PeersOfKey(peerKey)))

\* the account_id of the row is returned as it is, an empty one too
SqliteGetAccountIDByPeerPubKey(peerKey) ==
    SqliteQuery("GetAccountIDByPeerPubKey",
                IF PeersOfKey(peerKey) = {} THEN Result(NotFound, "")
                ELSE Result(OK, db.peers[First(PeersOfKey(peerKey))].owner))

\* the row of the setup key whose key column equals the upper-cased
\* argument; the key is the primary key of the row, so at most one matches
SqliteGetAccountBySetupKey(setupKey) ==
    LET matches == {k \in DOMAIN db.setup_keys : db.setup_keys[k].row = ToUpper(setupKey)} IN
    SqliteQuery("GetAccountBySetupKey",
                IF matches = {} THEN Result(NotFound, NilAccount)
                ELSE LET key == CHOOSE k \in matches : TRUE IN
                     IF db.setup_keys[key].owner = "" THEN Result(NotFound, NilAccount)
                     ELSE SqliteGetAccountResult(db.setup_keys[key].owner))

\* the first account whose domain column equals the lower-cased argument and
\* that is the primary account of a private domain
SqliteGetAccountByPrivateDomain(domain) ==
    LET matches == {k \in DOMAIN db.accounts :
                       /\ db.accounts[k].Domain = ToLower(domain)
                       /\ db.accounts[k].IsDomainPrimaryAccount
                       /\ db.accounts[k].DomainCategory = PrivateCategory} IN
    SqliteQuery("GetAccountByPrivateDomain",
                IF matches = {} THEN Result(NotFound, NilAccount)
                ELSE SqliteGetAccountResult(First(matches)))

SqliteGetTokenIDByHashedToken(hashedToken) ==
    LET matches == {t \in DOMAIN db.personal_access_tokens :
                       db.personal_access_tokens[t].row.HashedToken = hashedToken} IN
    SqliteQuery("GetTokenIDByHashedToken",
                IF matches = {} THEN Result(NotFound, "")
                ELSE Result(OK, db.personal_access_tokens[First(matches)].row.ID))

SqliteGetUserByTokenID(tokenID) ==
    SqliteQuery("GetUserByTokenID",
                IF tokenID \notin DOMAIN db.personal_access_tokens
                THEN Result(NotFound, NilUser)
                ELSE LET userID == db.personal_access_tokens[tokenID].owner IN
                     IF userID = "" \/ userID \notin DOMAIN db.users
                     THEN Result(NotFound, NilUser)
                     ELSE Result(OK, LoadUser(db, userID)))

\* Updates and Save of the row of the account with the given primary key:
\* NotFound when there is no such row.  The values written have no zero
\* field, so Updates writes every column of theirs.
SqliteSaveField(op, table, accountID, id, field, value) ==
    IF id \in DOMAIN db[table] /\ db[table][id].owner = accountID
    THEN /\ db' = [db EXCEPT ![table][id].row[field] = value]
         /\ dbLast' = SqliteCall(op, OK, "")
    ELSE /\ dbLast' = SqliteCall(op, NotFound, "")
         /\ UNCHANGED db

SqliteSavePeerStatus(accountID, peerID, peerStatus) ==
    SqliteSaveField("SavePeerStatus", "peers", accountID, peerID, "Status", peerStatus)

SqliteSavePeerLocation(accountID, peerWithLocation) ==
    SqliteSaveField("SavePeerLocation", "peers", accountID, peerWithLocation.ID, "Location",
                    peerWithLocation.Location)

SqliteSaveUserLastLogin(accountID, userID, lastLogin) ==
    SqliteSaveField("SaveUserLastLogin", "users", accountID, userID, "LastLogin", lastLogin)

\* the primary key of the one row of the installations table
installationPK == 1

\* fault: the row is inserted without the OnConflict clause, so a row that
\* is there stays as it is
SaveInstallationIDRow_Insert(d, ID) ==
    IF installationPK \in DOMAIN d.installations THEN d
    ELSE [d EXCEPT !.installations = Upsert(@, [k \in {installationPK} |-> ID])]

\* Clauses(clause.OnConflict{UpdateAll: true}).Create(&installation)
SaveInstallationIDRow(d, ID) ==
    [d EXCEPT !.installations = Upsert(@, [k \in {installationPK} |-> ID])]

SqliteSaveInstallationID(ID) ==
    /\ db' = SaveInstallationIDRow(db, ID)
    /\ dbLast' = SqliteCall("SaveInstallationID", OK, "")

\* SqliteStore.GetInstallationID: the empty string when there is no row
SqliteInstallationID(d) ==
    IF installationPK \in DOMAIN d.installations THEN d.installations[installationPK] ELSE ""

SqliteGetInstallationID ==
    SqliteQuery("GetInstallationID", Result(OK, SqliteInstallationID(db)))

\* SqliteStore.GetAllAccounts: GetAccount of every row of the accounts table
SqliteGetAllAccounts(d) == {LoadAccount(d, id) : id \in DOMAIN d.accounts}

\* the methods that do nothing in the sqlite store
SqliteNoop(op) ==
    /\ dbLast' = SqliteCall(op, OK, "")
    /\ UNCHANGED db

-----------------------------------------------------------------------------
(* Conversion of the store of a data directory to the other engine *)

\* the loop of NewSqliteStoreFromFileStore: SaveAccount of the accounts in the
\* order GetAllAccounts returned them, up to the first error; the write
\* numbered failing fails
RECURSIVE SaveAccounts(_, _, _, _)
SaveAccounts(r, accounts, order, failing) ==
    IF order = <<>> THEN r
    ELSE LET done == SaveAccounts(r, accounts, SubSeq(order, 1, Len(order) - 1), failing) IN
         IF done.err # OK THEN done
         ELSE SaveAccountTx(done.db, accounts[order[Len(order)]], Len(order) # failing)

\* NewSqliteStoreFromFileStore: NewSqliteStore opens the database of the data
\* directory, the installation ID of the file store is saved, and every
\* account that GetAllAccounts of the file store returns goes through
\* SaveAccount.  Write 0 is that of the installation ID, write i that of the
\* i-th account.
NewSqliteStoreFromFileStore(order, failing) ==
    LET first == IF failing = 0 THEN [db |-> db, err |-> DBError]
                 ELSE [db |-> SaveInstallationIDRow(db, InstallationID), err |-> OK]
        r == SaveAccounts(first, Accounts, order, failing)
    IN /\ db' = r.db
       /\ dbLast' = SqliteCall("NewSqliteStoreFromFileStore", r.err, "")
       /\ IF failing = 0 THEN UNCHANGED fileStore ELSE GetAllAccounts
       /\ UNCHANGED apart

\* NewFilestoreFromSqliteStore: NewFileStore restores the store file of the
\* data directory, SaveInstallationID saves the installation ID of the sqlite
\* store, every account that GetAllAccounts of the sqlite store returns is
\* put into store.Accounts, which leaves the index maps as restore built
\* them, and the store is persisted.  ok: the last write succeeds.
NewFilestoreFromSqliteStore(order, ids, ok) ==
    LET read == ReadJson(StoreFile(disk, diskInstallationID))
        store == RestoreAccounts(read.Accounts, order, ids)
        converted == [id \in (DOMAIN store.Accounts) \cup (DOMAIN db.accounts) |->
                         IF id \in DOMAIN db.accounts THEN LoadAccount(db, id)
                         ELSE store.Accounts[id]]
        idx == store.idx
    IN
    /\ CanPersist(ok)
    /\ Accounts' = converted
    /\ InstallationID' = SqliteInstallationID(db)
    /\ SetupKeyID2AccountID' = idx.SetupKeyID2AccountID
    /\ PeerKeyID2AccountID' = idx.PeerKeyID2AccountID
    /\ PeerID2AccountID' = idx.PeerID2AccountID
    /\ UserID2AccountID' = idx.UserID2AccountID
    /\ TokenID2UserID' = idx.TokenID2UserID
    /\ HashedPAT2TokenID' = idx.HashedPAT2TokenID
    /\ PrivateDomain2AccountID' = idx.PrivateDomain2AccountID
    /\ disk' = IF ok THEN converted ELSE store.Accounts
    /\ diskInstallationID' = SqliteInstallationID(db)
    /\ ioFailures' = IF ok THEN ioFailures ELSE ioFailures + 1
    /\ aliased' = {}
    /\ callers' = [c \in DOMAIN callers |-> IdleCaller]
    /\ accountLocks' = EmptyMap
    /\ last' = Call("NewFilestoreFromSqliteStore", persistErr(ok), FALSE)
    /\ UNCHANGED <<profile, mux, sqlite, outside>>

ConvertInit ==
    /\ EmptyStore
    /\ Unused
    /\ profile \in ConvertProfiles
    /\ callers = [c \in FileCallers |-> IdleCaller]

\* each store is used through its own methods, and the store of either
\* engine is converted to the other
ConvertNext ==
    \/ \E account \in AccountInputs(profile), ok \in BOOLEAN : SaveAccount(account, ok)
          /\ UNCHANGED beside
    \/ \E ID \in InstallationIDs, ok \in BOOLEAN : SaveInstallationID(ID, ok)
          /\ UNCHANGED beside
    \/ \E account \in AccountInputs(profile), ok \in BOOLEAN :
          SqliteSaveAccount(account, ok) /\ UNCHANGED <<fileStore, apart>>
    \/ \E ID \in InstallationIDs : SqliteSaveInstallationID(ID) /\ UNCHANGED <<fileStore, apart>>
    \/ \E order \in Orders(Accounts), failing \in 0..(Cardinality(DOMAIN Accounts) + 1) :
          NewSqliteStoreFromFileStore(order, failing)
    \/ \E order \in Orders(disk), ids \in NewIDs(disk), ok \in BOOLEAN :
          NewFilestoreFromSqliteStore(order, ids, ok)

ConvertSpec == ConvertInit /\ [][ConvertNext]_vars

-----------------------------------------------------------------------------
(* A file store and a sqlite store that receive the same calls *)

BothSaveAccount(account, ok) == SaveAccount(account, ok) /\ SqliteSaveAccount(account, ok)

BothDeleteAccount(account, saved, ok) ==
    DeleteAccount(account, ok) /\ SqliteDeleteAccount(account, saved, ok)

BothGetAccount(accountID) == GetAccount(accountID) /\ SqliteGetAccount(accountID)

BothGetAllAccounts ==
    GetAllAccounts /\ SqliteQuery("GetAllAccounts", Result(OK, SqliteGetAllAccounts(db)))

BothGetAccountByUser(userID) == GetAccountByUser(userID) /\ SqliteGetAccountByUser(userID)

BothGetAccountByPeerID(peerID) ==
    GetAccountByPeerID(peerID) /\ SqliteGetAccountByPeerID(peerID)

BothGetAccountByPeerPubKey(peerKey) ==
    GetAccountByPeerPubKey(peerKey) /\ SqliteGetAccountByPeerPubKey(peerKey)

BothGetAccountIDByPeerPubKey(peerKey) ==
    GetAccountIDByPeerPubKey(peerKey) /\ SqliteGetAccountIDByPeerPubKey(peerKey)

BothGetAccountBySetupKey(setupKey) ==
    GetAccountBySetupKey(setupKey) /\ SqliteGetAccountBySetupKey(setupKey)

BothGetAccountByPrivateDomain(domain) ==
    GetAccountByPrivateDomain(domain) /\ SqliteGetAccountByPrivateDomain(domain)

BothGetTokenIDByHashedToken(token) ==
    GetTokenIDByHashedToken(token) /\ SqliteGetTokenIDByHashedToken(token)

BothGetUserByTokenID(tokenID) == GetUserByTokenID(tokenID) /\ SqliteGetUserByTokenID(tokenID)

BothSavePeerStatus(accountID, peerID, peerStatus) ==
    /\ SavePeerStatus(accountID, peerID, peerStatus)
    /\ SqliteSavePeerStatus(accountID, peerID, peerStatus)

BothSavePeerLocation(accountID, peerWithLocation) ==
    /\ SavePeerLocation(accountID, peerWithLocation)
    /\ SqliteSavePeerLocation(accountID, peerWithLocation)

BothSaveUserLastLogin(accountID, userID, lastLogin) ==
    /\ SaveUserLastLogin(accountID, userID, lastLogin)
    /\ SqliteSaveUserLastLogin(accountID, userID, lastLogin)

BothDeleteHashedPAT2TokenIDIndex(hashedToken) ==
    DeleteHashedPAT2TokenIDIndex(hashedToken) /\ SqliteNoop("DeleteHashedPAT2TokenIDIndex")

BothDeleteTokenID2UserIDIndex(tokenID) ==
    DeleteTokenID2UserIDIndex(tokenID) /\ SqliteNoop("DeleteTokenID2UserIDIndex")

EngineInit ==
    /\ EmptyStore
    /\ Unused
    /\ profile \in EngineProfiles
    /\ callers = [c \in FileCallers |-> IdleCaller]

EngineNext ==
    \/ \E account \in AccountInputs(profile), ok \in BOOLEAN :
          BothSaveAccount(account, ok) /\ UNCHANGED apart
    \/ \E account \in AccountInputs(profile), saved, ok \in BOOLEAN :
          BothDeleteAccount(account, saved, ok) /\ UNCHANGED apart
    \/ \E accountID \in AccountIDs : BothGetAccount(accountID) /\ UNCHANGED apart
    \/ BothGetAllAccounts /\ UNCHANGED apart
    \/ \E userID \in UserIDs : BothGetAccountByUser(userID) /\ UNCHANGED apart
    \/ \E peerID \in PeerIDs : BothGetAccountByPeerID(peerID) /\ UNCHANGED apart
    \/ \E peerKey \in PeerKeys : BothGetAccountByPeerPubKey(peerKey) /\ UNCHANGED apart
    \/ \E peerKey \in PeerKeys : BothGetAccountIDByPeerPubKey(peerKey) /\ UNCHANGED apart
    \/ \E setupKey \in SetupKeyIDs : BothGetAccountBySetupKey(setupKey) /\ UNCHANGED apart
    \/ \E domain \in Domains : BothGetAccountByPrivateDomain(domain) /\ UNCHANGED apart
    \/ \E token \in HashedTokens : BothGetTokenIDByHashedToken(token) /\ UNCHANGED apart
    \/ \E tokenID \in TokenIDs : BothGetUserByTokenID(tokenID) /\ UNCHANGED apart
    \/ \E accountID \in AccountIDs, peerID \in PeerIDs, peerStatus \in PeerStatuses :
          BothSavePeerStatus(accountID, peerID, peerStatus) /\ UNCHANGED apart
    \/ \E accountID \in AccountIDs, peerID \in PeerIDs, location \in Locations :
          BothSavePeerLocation(accountID, [Peer(peerID, "k1") EXCEPT !.Location = location])
          /\ UNCHANGED apart
    \/ \E accountID \in AccountIDs, userID \in UserIDs, lastLogin \in LastLogins :
          BothSaveUserLastLogin(accountID, userID, lastLogin) /\ UNCHANGED apart
    \/ \E hashedToken \in HashedTokens :
          BothDeleteHashedPAT2TokenIDIndex(hashedToken) /\ UNCHANGED apart
    \/ \E tokenID \in TokenIDs : BothDeleteTokenID2UserIDIndex(tokenID) /\ UNCHANGED apart

EngineSpec == EngineInit /\ [][EngineNext]_vars

-----------------------------------------------------------------------------
(* Properties *)

\* what the caller gets from a lookup with result r: the error and a copy of the account
Reply(r) ==
    [err |-> r.err, account |-> IF r.err = OK THEN Accounts[r.accountID] ELSE NilAccount]

\* C1: after a successful SaveAccount(A), GetAccountByPeerPubKey(P.Key) and
\* GetAccountByPeerID(P.ID) return account A for every peer P of A; after a
\* successful DeleteAccount(A), both return NotFound for every peer P of A.
C1_IndexConsistency ==
    [][/\ last'.op = "SaveAccount" =>
            \A account \in AccountInputs(profile) :
               (account.Id # "" /\ SaveAccount(account, TRUE)) =>
                  \A p \in PeersOf(account) :
                     /\ Reply(GetAccountByPeerPubKeyResult(p.Key))' =
                           [err |-> OK, account |-> account]
                     /\ Reply(GetAccountByPeerIDResult(p.ID))' =
                           [err |-> OK, account |-> account]
       /\ last'.op = "DeleteAccount" =>
            \A account \in AccountInputs(profile) :
               (account.Id # "" /\ PeersOf(account) # {} /\ DeleteAccount(account, TRUE)) =>
                  \A p \in PeersOf(account) :
                     /\ GetAccountByPeerPubKeyResult(p.Key)'.err = NotFound
                     /\ GetAccountByPeerIDResult(p.ID)'.err = NotFound]_vars

\* an account with two peers was saved, and both peers resolve to it by key and by ID
C1_Witness ==
    /\ last = Call("SaveAccount", OK, FALSE)
    /\ \E id \in DOMAIN Accounts :
          /\ Cardinality(DOMAIN Accounts[id].Peers) = 2
          /\ \A p \in PeersOf(Accounts[id]) :
                /\ GetAccountByPeerPubKeyResult(p.Key) = Found(id)
                /\ GetAccountByPeerIDResult(p.ID) = Found(id)

\* C2: a write of the caller to an account object it passed to SaveAccount or
\* received from a lookup changes nothing that GetAccount returns.
C2_CopyIsolation ==
    [][(\E accountID \in AccountIDs : CallerMutate(accountID)) =>
          \A id \in AccountIDs :
             Reply(GetAccountResult(id))' = Reply(GetAccountResult(id))]_vars

\* the caller wrote to its object of a stored account, and the store holds no caller object
C2_Witness ==
    /\ last.op = "CallerMutate"
    /\ Accounts # EmptyMap
    /\ aliased = {}

\* C3: after a successful SaveAccount(A), GetAccount(A.Id) returns a value equal
\* to A, whatever was stored under A.Id before.
C3_SaveGetRoundTrip ==
    [][last'.op = "SaveAccount" =>
         \A account \in AccountInputs(profile) :
            (account.Id # "" /\ SaveAccount(account, TRUE)) =>
               Reply(GetAccountResult(account.Id))' = [err |-> OK, account |-> account]]_vars

\* a save that replaced an account by one with no entities, while its old index entries remain
C3_Witness ==
    /\ last = Call("SaveAccount", OK, FALSE)
    /\ \E id \in DOMAIN Accounts :
          /\ Accounts[id] = BareAccount(id)
          /\ \E k \in DOMAIN PeerID2AccountID : PeerID2AccountID[k] = id

\* C4: SaveAccount of an account with an empty ID returns InvalidArgument and
\* leaves the account map, the seven index maps and the store file unchanged.
C4_Validation ==
    [][last'.op = "SaveAccount" =>
         \A account \in AccountInputs(profile) :
         (account.Id = "" /\ SaveAccount(account, TRUE)) =>
            /\ last'.err = InvalidArgument
            /\ Cardinality(DOMAIN Accounts') = Cardinality(DOMAIN Accounts)
            /\ UNCHANGED <<Accounts, indices, disk>>]_vars

\* SaveAccount refused an empty ID while the store held two accounts
C4_Witness ==
    /\ last = Call("SaveAccount", InvalidArgument, FALSE)
    /\ Cardinality(DOMAIN Accounts) = 2
    /\ disk = Accounts
\* C5: when the peer-ID index has an entry for p and no stored account has a
\* peer with ID p, GetAccountByPeerID(p) returns NotFound and removes the entry.
C5_StaleSelfHealByPeerID ==
    [][last'.op = "GetAccountByPeerID" =>
         \A p \in PeerIDs :
            (/\ p \in DOMAIN PeerID2AccountID
             /\ \A id \in DOMAIN Accounts : \A q \in PeersOf(Accounts[id]) : q.ID # p
             /\ GetAccountByPeerID(p)) =>
               /\ last'.err = NotFound
               /\ p \notin DOMAIN PeerID2AccountID']_vars

\* the peer-key index maps k to a stored account that has no peer with key k
StaleKeyEntry(k) ==
    /\ k \in DOMAIN PeerKeyID2AccountID
    /\ PeerKeyID2AccountID[k] \in DOMAIN Accounts
    /\ \A p \in PeersOf(Accounts[PeerKeyID2AccountID[k]]) : p.Key # k

\* C6: when the peer-key index maps k to a stored account that has no peer
\* with key k, GetAccountByPeerPubKey(k) returns NotFound, deletes the entry
\* of k and changes no other index entry and no account.
C6_StaleSelfHealByPubKey ==
    [][last'.op = "GetAccountByPeerPubKey" =>
         \A k \in PeerKeys :
            (StaleKeyEntry(k) /\ GetAccountByPeerPubKey(k)) =>
               /\ last'.err = NotFound
               /\ PeerKeyID2AccountID' = MapDelete(PeerKeyID2AccountID, k)
               /\ UNCHANGED <<Accounts, SetupKeyID2AccountID, PeerID2AccountID,
                              UserID2AccountID, PrivateDomain2AccountID,
                              HashedPAT2TokenID, TokenID2UserID>>]_vars

\* a lookup by public key removed a stale entry and left the entry of another key in place
C6_Witness ==
    /\ last = Call("GetAccountByPeerPubKey", NotFound, TRUE)
    /\ PeerKeyID2AccountID # EmptyMap
    /\ \E id \in DOMAIN Accounts :
          \E k \in PeerKeys : k \notin DOMAIN PeerKeyID2AccountID
                              /\ \A p \in PeersOf(Accounts[id]) : p.Key # k

\* C7: GetAccountByUser, GetAccountBySetupKey and GetAccountByPrivateDomain
\* return NotFound when the index entry of the key points to a stored account
\* that no longer contains the user or the setup key, or that is no longer the
\* primary private account of the domain.
C7_StaleLookupsNotFound ==
    /\ \A u \in UserIDs :
          (/\ u \in DOMAIN UserID2AccountID
           /\ UserID2AccountID[u] \in DOMAIN Accounts
           /\ \A x \in UsersOf(Accounts[UserID2AccountID[u]]) : x.Id # u)
             => GetAccountByUserResult(u).err = NotFound
    /\ \A k \in SetupKeyIDs :
          (/\ ToUpper(k) \in DOMAIN SetupKeyID2AccountID
           /\ SetupKeyID2AccountID[ToUpper(k)] \in DOMAIN Accounts
           /\ \A x \in Accounts[SetupKeyID2AccountID[ToUpper(k)]].SetupKeys :
                 ToUpper(x) # ToUpper(k))
             => GetAccountBySetupKeyResult(k).err = NotFound
    /\ \A d \in Domains :
          (/\ ToLower(d) \in DOMAIN PrivateDomain2AccountID
           /\ PrivateDomain2AccountID[ToLower(d)] \in DOMAIN Accounts
           /\ LET a == Accounts[PrivateDomain2AccountID[ToLower(d)]] IN
                 ~(a.DomainCategory = PrivateCategory /\ a.IsDomainPrimaryAccount))
             => GetAccountByPrivateDomainResult(d).err = NotFound

\* C8: GetAccountIDByPeerPubKey(k) finds an account exactly when
\* GetAccountByPeerPubKey(k) does, and the ID it returns is that of a stored
\* account with a peer of key k.
C8_AccountIDByPubKeyAgrees ==
    \A k \in PeerKeys :
       LET r == GetAccountIDByPeerPubKeyResult(k) IN
       /\ (r.err = OK) <=> (GetAccountByPeerPubKeyResult(k).err = OK)
       /\ r.err = OK =>
             /\ r.accountID \in DOMAIN Accounts
             /\ \E p \in PeersOf(Accounts[r.accountID]) : p.Key = k

\* no entry of an account-valued index maps to id
NoIndexEntryOf(id, setupKeyIdx, peerKeyIdx, peerIDIdx, userIdx, domainIdx) ==
    /\ \A k \in DOMAIN setupKeyIdx : setupKeyIdx[k] # id
    /\ \A k \in DOMAIN peerKeyIdx : peerKeyIdx[k] # id
    /\ \A k \in DOMAIN peerIDIdx : peerIDIdx[k] # id
    /\ \A k \in DOMAIN userIdx : userIdx[k] # id
    /\ \A k \in DOMAIN domainIdx : domainIdx[k] # id

\* C9: after DeleteAccount of a stored account, called with the account as the
\* store holds it, no entry of the setup-key, peer-key, peer-ID, user-ID or
\* private-domain index maps to its ID, and no token index entry refers to a
\* token or a user of it.
C9_DeleteRemovesEveryIndexEntry ==
    [][last'.op = "DeleteAccount" =>
         \A id \in DOMAIN Accounts :
            DeleteAccount(Accounts[id], TRUE) =>
               /\ NoIndexEntryOf(id, SetupKeyID2AccountID', PeerKeyID2AccountID',
                                 PeerID2AccountID', UserID2AccountID',
                                 PrivateDomain2AccountID')
               /\ \A t \in DOMAIN TokenID2UserID' :
                     /\ TokenID2UserID'[t] \notin {u.Id : u \in UsersOf(Accounts[id])}
                     /\ t \notin {up[2].ID : up \in UserPATs(Accounts[id])}
               /\ \A h \in DOMAIN HashedPAT2TokenID' :
                     HashedPAT2TokenID'[h] \notin {up[2].ID : up \in UserPATs(Accounts[id])}]_vars

\* C10: DeleteAccount of an account whose non-empty ID is not in the store
\* returns success and leaves the account map and all index maps unchanged.
C10_DeleteAbsentChangesNothing ==
    [][last'.op = "DeleteAccount" =>
         \A account \in AccountInputs(profile) :
            (/\ account.Id # ""
             /\ account.Id \notin DOMAIN Accounts
             /\ DeleteAccount(account, TRUE)) =>
               /\ last'.err = OK
               /\ UNCHANGED <<Accounts, indices>>]_vars

\* C11: no peer public key and no peer ID is in the Peers of two different
\* stored accounts.
C11_PeerUniqueness ==
    \A a \in DOMAIN Accounts : \A b \in DOMAIN Accounts \ {a} :
       \A p \in PeersOf(Accounts[a]) : \A q \in PeersOf(Accounts[b]) :
          p.Key # q.Key /\ p.ID # q.ID

\* the token ID resolves to a user that its account contains now
TokenResolves(t) ==
    /\ t \in DOMAIN TokenID2UserID
    /\ TokenID2UserID[t] \in DOMAIN UserID2AccountID
    /\ UserID2AccountID[TokenID2UserID[t]] \in DOMAIN Accounts
    /\ TokenID2UserID[t] \in DOMAIN Accounts[UserID2AccountID[TokenID2UserID[t]]].Users

\* C12: GetUserByTokenID(t) never panics and never returns a nil user: it
\* returns NotFound when the token ID, the user ID or the account is missing
\* or the account no longer contains the user, and otherwise a copy of the
\* user as its account holds it.
C12_TokenResolution ==
    \A t \in TokenIDs : \A r \in GetUserByTokenIDResults(t) :
       IF TokenResolves(t)
       THEN /\ r.err = OK
            /\ r.user = Accounts[UserID2AccountID[TokenID2UserID[t]]].Users[TokenID2UserID[t]]
       ELSE r.err = NotFound

\* the methods that update one field in place
SaveFieldOps == {"SavePeerStatus", "SavePeerLocation", "SaveUserLastLogin"}

\* C13: SavePeerStatus, SavePeerLocation and SaveUserLastLogin return NotFound
\* when the account is not stored or does not contain the peer or user, and
\* then leave every account, every index and the store file unchanged.
C13_SaveFieldNotFound ==
    [][last'.op \in SaveFieldOps =>
         \A accountID \in AccountIDs :
            /\ \A peerID \in PeerIDs :
                  (accountID \notin DOMAIN Accounts
                      \/ peerID \notin DOMAIN Accounts[accountID].Peers) =>
                     /\ \A peerStatus \in PeerStatuses :
                           SavePeerStatus(accountID, peerID, peerStatus) =>
                              /\ last'.err = NotFound
                              /\ UNCHANGED <<Accounts, indices, disk, diskInstallationID>>
                     /\ \A location \in Locations :
                           SavePeerLocation(accountID,
                                 [Peer(peerID, "k1") EXCEPT !.Location = location]) =>
                              /\ last'.err = NotFound
                              /\ UNCHANGED <<Accounts, indices, disk, diskInstallationID>>
            /\ \A userID \in UserIDs :
                  (accountID \notin DOMAIN Accounts
                      \/ userID \notin DOMAIN Accounts[accountID].Users) =>
                     \A lastLogin \in LastLogins :
                        SaveUserLastLogin(accountID, userID, lastLogin) =>
                           /\ last'.err = NotFound
                           /\ UNCHANGED <<Accounts, indices, disk, diskInstallationID>>]_vars

\* SavePeerStatus returned NotFound for a peer that its stored account has lost
\* while the peer-ID index still names the account
C13_Witness ==
    /\ last = Call("SavePeerStatus", NotFound, FALSE)
    /\ \E p \in DOMAIN PeerID2AccountID :
          /\ PeerID2AccountID[p] \in DOMAIN Accounts
          /\ p \notin DOMAIN Accounts[PeerID2AccountID[p]].Peers

\* the methods that write the store file
PersistingOps == {"SaveAccount", "DeleteAccount", "SaveInstallationID", "Close"}

\* C14: a successful update in place changes the one field of the stored
\* entity, which GetAccount then returns, and leaves the index maps and the
\* store file unchanged; the store file changes only in a successful
\* SaveAccount, DeleteAccount, SaveInstallationID or Close, which writes the
\* accounts as they are in memory; and a restart before that brings back the
\* accounts of the file.
C14_SaveFieldInMemoryOnly ==
    [][/\ (last'.op \in SaveFieldOps /\ last'.err = OK) =>
            /\ UNCHANGED <<indices, disk, diskInstallationID>>
            /\ \E id \in DOMAIN Accounts :
                  /\ \A other \in DOMAIN Accounts \ {id} :
                        Accounts'[other] = Accounts[other]
                  /\ DOMAIN Accounts' = DOMAIN Accounts
                  /\ Reply(GetAccountResult(id))'.account = Accounts'[id]
                  /\ \/ \E p \in DOMAIN Accounts[id].Peers, st \in PeerStatuses :
                           /\ last'.op = "SavePeerStatus"
                           /\ Accounts'[id] =
                                 [Accounts[id] EXCEPT !.Peers[p].Status = st]
                     \/ \E p \in DOMAIN Accounts[id].Peers, l \in Locations :
                           /\ last'.op = "SavePeerLocation"
                           /\ Accounts'[id] =
                                 [Accounts[id] EXCEPT !.Peers[p].Location = l]
                     \/ \E u \in DOMAIN Accounts[id].Users, t \in LastLogins :
                           /\ last'.op = "SaveUserLastLogin"
                           /\ Accounts'[id] =
                                 [Accounts[id] EXCEPT !.Users[u].LastLogin = t]
       /\ disk' # disk =>
            /\ last'.op \in PersistingOps
            /\ last'.err = OK
            /\ disk' = Accounts'
       /\ (last'.op = "Close" /\ last'.err = OK) => disk' = Accounts
       /\ last'.op = "restore" => Accounts' = disk]_vars

\* a peer status was updated in place and the store file still holds the old status
C14_Witness ==
    /\ last = Call("SavePeerStatus", OK, FALSE)
    /\ "a1" \in DOMAIN Accounts /\ "a1" \in DOMAIN disk
    /\ "p1" \in DOMAIN Accounts["a1"].Peers /\ "p1" \in DOMAIN disk["a1"].Peers
    /\ Accounts["a1"].Peers["p1"].Status = "s1"
    /\ disk["a1"].Peers["p1"].Status = "s0"

C16_IOFailureIsInternal ==
    [][(/\ last'.op \in {"SaveAccount", "DeleteAccount", "SaveInstallationID"}
        /\ ioFailures' = ioFailures + 1) => last'.err = Internal]_vars

\* C17: on the file store at most one caller at a time holds the lock of an
\* account, whether it asked for the read lock or the write lock and whoever
\* registered the mutex, and a caller that waits for the lock of an account
\* waits only while another caller holds the lock of that same account.
C17_AccountLockExclusion ==
    /\ \A id \in AccountIDs : Cardinality(HoldersOf(id)) <= 1
    /\ \A c \in DOMAIN callers :
          (callers[c].pc = "locking" /\ HoldersOf(callers[c].id) = {}) =>
             ENABLED LockReturn(c)

\* a caller asked for the read lock of an account whose lock another caller
\* holds, and waits, while nothing keeps it from the lock of the other account
C17_Witness ==
    /\ last = Call("AcquireAccountReadLock", OK, FALSE)
    /\ \E c \in DOMAIN callers : \E d \in DOMAIN callers \ {c} :
          /\ callers[c].pc = "holding"
          /\ callers[d].pc = "locking"
          /\ callers[d].id = callers[c].id
          /\ ~ ENABLED LockReturn(d)
          /\ DOMAIN accountLocks = {callers[c].id}

C19_GlobalLockExclusion ==
    \A c \in GlobalHolders :
       /\ GlobalHolders = {c}
       /\ \A id \in AccountIDs : HoldersOf(id) = {}

\* the steps of the lock methods
LockOps == {"AcquireGlobalLock", "ReleaseGlobalLock", "AcquireAccountWriteLock",
            "AcquireAccountReadLock", "LockReturn", "Unlock"}

\* every data method of the store can run now
DataOpsEnabled ==
    /\ ENABLED SaveAccount(BareAccount("a1"), TRUE)
    /\ ENABLED DeleteAccount(BareAccount("a1"), TRUE)
    /\ ENABLED DeleteHashedPAT2TokenIDIndex("h1")
    /\ ENABLED DeleteTokenID2UserIDIndex("t1")
    /\ ENABLED GetAccount("a1")
    /\ ENABLED GetAllAccounts
    /\ ENABLED GetAccountByPrivateDomain(<<101, 120>>)
    /\ ENABLED GetAccountBySetupKey(<<107>>)
    /\ ENABLED GetAccountByUser("u1")
    /\ ENABLED GetAccountByPeerID("p1")
    /\ ENABLED GetAccountByPeerPubKey("k1")
    /\ ENABLED GetAccountIDByPeerPubKey("k1")
    /\ ENABLED GetTokenIDByHashedToken("h1")
    /\ ENABLED GetUserByTokenID("t1")
    /\ ENABLED SavePeerStatus("a1", "p1", "s1")
    /\ ENABLED SavePeerLocation("a1", [Peer("p1", "k1") EXCEPT !.Location = "l1"])
    /\ ENABLED SaveUserLastLogin("a1", "u1", "t1")
    /\ ENABLED SaveInstallationID("i1", TRUE)
    /\ ENABLED Close(TRUE)

\* C20: no data method of the store takes, releases or waits for an advisory
\* lock: its step leaves the callers and the lock registry as they are, and
\* it can run whatever locks the callers hold.
C20_NoImplicitLocks ==
    /\ [][last'.op \notin LockOps \cup {"restore"} => UNCHANGED advisory]_vars
    /\ []DataOpsEnabled

\* account a1 was saved while one caller held its lock and another the global lock
C20_Witness ==
    /\ last = Call("SaveAccount", OK, FALSE)
    /\ "a1" \in DOMAIN Accounts
    /\ HoldersOf("a1") # {}
    /\ GlobalHolders # {}

\* C21: the file store serializes all operations behind s.mux: no caller reads
\* a field of the store (GetInstallationID included) while another caller is
\* inside a method under the mutex, so no read runs concurrently with a write
\* such as SaveInstallationID or SaveAccount.
C21_MuxSerializes ==
    \A c1, c2 \in DOMAIN mux :
       (c1 # c2 /\ c1 \in MuxHolders) => mux[c2].pc # "reading"

\* C22: peer re-keying.  For an account of the store file that has its All
\* group, and every peer of it that the file keeps under its public key with
\* an empty ID: after restore the Peers map has no entry under the key and
\* exactly one entry for the peer, under a newly generated non-empty ID that
\* is the peer's ID; every group peer-list entry and every route Peer that
\* was the key is the new ID, references to peers that needed no migration
\* are as they were, and the peer-ID index maps the new ID to the account.
C22_PeerRekeying ==
    [][last'.op = "restore" =>
         \A a \in DOMAIN disk :
            GroupAll(disk[a]) # {} =>
               \A k \in MigrationKeys(disk[a]) :
                  LET old == disk[a]
                      new == Accounts'[a]
                  IN \E n \in (DOMAIN new.Peers) \ (DOMAIN old.Peers) :
                        /\ n # ""
                        /\ k \notin DOMAIN new.Peers
                        /\ new.Peers[n] = [old.Peers[k] EXCEPT
                                              !.ID = n, !.LastLogin = new.Peers[n].LastLogin]
                        /\ {x \in DOMAIN new.Peers : new.Peers[x].Key = old.Peers[k].Key} = {n}
                        /\ DOMAIN new.Groups = DOMAIN old.Groups
                        /\ \A g \in DOMAIN old.Groups :
                              /\ DOMAIN new.Groups[g].Peers = DOMAIN old.Groups[g].Peers
                              /\ \A i \in DOMAIN old.Groups[g].Peers :
                                    /\ old.Groups[g].Peers[i] = k =>
                                          new.Groups[g].Peers[i] = n
                                    /\ old.Groups[g].Peers[i] \notin MigrationKeys(old) =>
                                          new.Groups[g].Peers[i] = old.Groups[g].Peers[i]
                        /\ DOMAIN new.Routes = DOMAIN old.Routes
                        /\ \A r \in DOMAIN old.Routes :
                              /\ old.Routes[r].Peer = k => new.Routes[r].Peer = n
                              /\ old.Routes[r].Peer \notin MigrationKeys(old) =>
                                    new.Routes[r].Peer = old.Routes[r].Peer
                        /\ n \in DOMAIN PeerID2AccountID'
                        /\ PeerID2AccountID'[n] = a]_vars

\* restore has migrated a peer of an account: the peer is under a generated
\* ID that a group lists, that a route is assigned to and that the index has
C22_Witness ==
    /\ last.op = "restore"
    /\ \E a \in DOMAIN Accounts, n \in Xids :
          /\ n \in DOMAIN Accounts[a].Peers
          /\ Accounts[a].Peers[n].ID = n
          /\ \E g \in DOMAIN Accounts[a].Groups, i \in 1..2 :
                i \in DOMAIN Accounts[a].Groups[g].Peers /\ Accounts[a].Groups[g].Peers[i] = n
          /\ \E r \in DOMAIN Accounts[a].Routes : Accounts[a].Routes[r].Peer = n
          /\ n \in DOMAIN PeerID2AccountID
          /\ PeerID2AccountID[n] = a

\* C23: migration idempotence.  A restore of the file that a restore wrote
\* makes the accounts and the seven index maps that the restore before it
\* made, and assigns no new peer ID.
C23_MigrationIdempotence ==
    [][(last.op = "restore" /\ last'.op = "restore") =>
          (Accounts' = Accounts /\ indices' = indices)]_vars

\* the entries of an index map that are not under the keys of the entries
\* that restore adds for the account
EntriesBeside(idx, index, account) ==
    LET own == DOMAIN RestoreAccountIndices(EmptyIndices, account)[index]
    IN [k \in (DOMAIN idx[index]) \ own |-> idx[index][k]]

\* the names of the seven index maps
IndexNames == DOMAIN EmptyIndices

\* the order without the account
OrderWithout(order, id) == SelectSeq(order, LAMBDA a : a # id)

\* the index maps of the store
Indices ==
    [SetupKeyID2AccountID |-> SetupKeyID2AccountID,
     PeerKeyID2AccountID |-> PeerKeyID2AccountID,
     PeerID2AccountID |-> PeerID2AccountID,
     UserID2AccountID |-> UserID2AccountID,
     TokenID2UserID |-> TokenID2UserID,
     HashedPAT2TokenID |-> HashedPAT2TokenID,
     PrivateDomain2AccountID |-> PrivateDomain2AccountID]

C25_MissingGroupAllStillMigratesPeers ==
    last.op = "restore" =>
       \A a \in DOMAIN Accounts :
          GroupAll(Accounts[a]) = {} =>
             \A p \in PeersOf(Accounts[a]) : p.ID # "" /\ p.LastLogin # ZeroTime

\* C26: a file store and a sqlite store that receive the same sequence of
\* calls return the same result from every call: the same error kind, and
\* equal values from the lookups.
C26_EngineEquivalence ==
    [][/\ last'.err = dbLast'.err
       /\ \A accountID \in AccountIDs :
             BothGetAccount(accountID) =>
                dbLast'.value = Reply(GetAccountResult(accountID)).account
       /\ BothGetAllAccounts =>
             dbLast'.value = {Accounts[id] : id \in DOMAIN Accounts}
       /\ \A userID \in UserIDs :
             BothGetAccountByUser(userID) =>
                dbLast'.value = Reply(GetAccountByUserResult(userID)).account
       /\ \A peerID \in PeerIDs :
             BothGetAccountByPeerID(peerID) =>
                dbLast'.value = Reply(GetAccountByPeerIDResult(peerID)).account
       /\ \A peerKey \in PeerKeys :
             /\ BothGetAccountByPeerPubKey(peerKey) =>
                   dbLast'.value = Reply(GetAccountByPeerPubKeyResult(peerKey)).account
             /\ BothGetAccountIDByPeerPubKey(peerKey) =>
                   dbLast'.value = GetAccountIDByPeerPubKeyResult(peerKey).accountID
       /\ \A token \in HashedTokens :
             BothGetTokenIDByHashedToken(token) =>
                dbLast'.value = GetTokenIDByHashedTokenResult(token).tokenID
       /\ \A tokenID \in TokenIDs :
             BothGetUserByTokenID(tokenID) =>
                \E r \in GetUserByTokenIDResults(tokenID) :
                   r.err = last'.err /\ r.user = dbLast'.value]_vars

\* C27: SaveAccount and DeleteAccount of the sqlite store with an account
\* whose ID is empty return InvalidArgument and write nothing to the database.
C27_SqliteValidation ==
    [][dbLast'.op \in {"SaveAccount", "DeleteAccount"} =>
          \A account \in AccountInputs(profile) :
             (/\ account.Id = ""
              /\ \/ SqliteSaveAccount(account, TRUE)
                 \/ \E saved \in BOOLEAN : SqliteDeleteAccount(account, saved, TRUE)) =>
                (dbLast'.err = InvalidArgument /\ db' = db)]_vars

\* the tokens of the users of an account, and the rules of its policies, in
\* the database
TokenRowsOf(d, id) ==
    {t \in DOMAIN d.personal_access_tokens :
        d.personal_access_tokens[t].owner \in RowsOf(d.users, id)}

RuleRowsOf(d, id) ==
    {r \in DOMAIN d.policy_rules : d.policy_rules[r].owner \in RowsOf(d.policies, id)}

\* C30: after a successful SaveAccount(A) of the sqlite store GetAccount(A.Id)
\* returns exactly the entities of A, the tokens and rules that the database
\* held for A and that A does not hold are gone, and every other account is
\* as it was.
C30_FullAggregateReplace ==
    [][(dbLast'.op = "SaveAccount" /\ dbLast'.err = OK) =>
          \A account \in AccountInputs(profile) :
             SqliteSaveAccount(account, TRUE) =>
                /\ SqliteGetAccountResult(account.Id)' = Result(OK, account)
                /\ \A t \in TokenRowsOf(db, account.Id) :
                      t \in DOMAIN db'.personal_access_tokens => t \in TokenRowsOf(db', account.Id)
                /\ \A r \in RuleRowsOf(db, account.Id) :
                      r \in DOMAIN db'.policy_rules => r \in RuleRowsOf(db', account.Id)
                /\ \A id \in (DOMAIN db.accounts) \ {account.Id} :
                      /\ id \in DOMAIN db'.accounts
                      /\ LoadAccount(db', id) = LoadAccount(db, id)]_vars

C29_ConvertedAccountsIndexed ==
    [][last'.op = "NewFilestoreFromSqliteStore" =>
          \A order \in Orders(disk), ids \in NewIDs(disk) :
             NewFilestoreFromSqliteStore(order, ids, TRUE) =>
                \A id \in DOMAIN db.accounts :
                   LET account == LoadAccount(db, id)
                       found == [err |-> OK, account |-> account]
                   IN /\ \A p \in PeersOf(account) :
                            /\ Reply(GetAccountByPeerIDResult(p.ID))' = found
                            /\ Reply(GetAccountByPeerPubKeyResult(p.Key))' = found
                      /\ \A u \in DOMAIN account.Users :
                            Reply(GetAccountByUserResult(u))' = found
                      /\ \A k \in account.SetupKeys :
                            Reply(GetAccountBySetupKeyResult(k))' = found
                      /\ \A u \in DOMAIN account.Users :
                            \A t \in DOMAIN account.Users[u].PATs :
                               GetTokenIDByHashedTokenResult(account.Users[u].PATs[t].HashedToken)'
                                  = [err |-> OK, tokenID |-> t]]_vars

\* C31: with a collector, every acquisition of the global lock, every
\* acquisition of an account lock and every persist that wrote the file
\* reports its duration exactly once; without a collector they complete and
\* report nothing.
C31_MetricsReported ==
    [][LET once == IF metrics.collector THEN 1 ELSE 0 IN
       /\ last'.op = "AcquireGlobalLock" => metrics'.reports.globalLock = once
       /\ last'.op = "LockReturn" => metrics'.reports.accountLock = once
       /\ (last'.op \in PersistingOps /\ last'.err = OK) =>
             metrics'.reports.persistence = once]_vars

\* C32: while the process lives, the mutex registered for an account ID stays
\* the one registered first, also across DeleteAccount: an acquire of a
\* registered ID takes the registered mutex, and no two callers hold the lock
\* of one account ID at a time.
C32_LockRegistryKept ==
    [][last'.op # "restore" =>
          /\ \A id \in DOMAIN accountLocks :
                id \in DOMAIN accountLocks' /\ accountLocks'[id] = accountLocks[id]
          /\ \A c \in DOMAIN callers :
                (/\ callers[c].pc = "idle"
                 /\ callers'[c].pc = "locking"
                 /\ callers'[c].id \in DOMAIN accountLocks) =>
                   callers'[c].mtx = accountLocks[callers'[c].id]
          /\ \A id \in AccountIDs : Cardinality(HoldersOf(id)') <= 1]_vars

\* a1 was deleted while c1 held its lock; c2 waits for the mutex that c1 holds
C32_Witness ==
    /\ last = Call("DeleteAccount", OK, FALSE)
    /\ "a1" \notin DOMAIN Accounts
    /\ callers["c1"].pc = "holding" /\ callers["c1"].id = "a1"
    /\ callers["c2"].pc = "locking" /\ callers["c2"].id = "a1"
    /\ accountLocks["a1"] = callers["c1"].mtx
    /\ callers["c2"].mtx = callers["c1"].mtx

\* C33: When a caller that holds an advisory lock releases it and takes no
\* second one meanwhile, and scheduling is fair, every call of
\* AcquireGlobalLock, AcquireAccountWriteLock and AcquireAccountReadLock
\* returns, and every method of the file store that was called returns: s.mux
\* is unlocked on every return, those with an error too.
C33_LockLiveness ==
    \A c \in FileCallers :
        /\ (callers[c].pc = "acquiring") ~> (callers[c].pc = "global")
        /\ (callers[c].pc = "locking") ~> (callers[c].pc = "holding")
        /\ (mux[c].pc = "calling") ~> (mux[c].pc = "idle")

\* a method returns an error under s.mux while the other caller waits for
\* s.mux, or a caller waits for the account lock that the other one holds
C33_Witness ==
    \/ /\ mux["c1"].pc = "ran"
       /\ last.err # OK
       /\ mux["c2"].pc = "calling"
    \/ /\ callers["c1"].pc = "holding"
       /\ callers["c2"].pc = "locking"
       /\ callers["c2"].mtx = callers["c1"].mtx

\* C34: SaveAccount and DeleteAccount are atomic towards the lookups GetAccount,
\* GetAccountByPeerID, GetAccountByPeerPubKey, GetAccountByUser and
\* GetAccountBySetupKey of concurrent callers: a lookup runs on the store as
\* it is before a write began or after it ended, never between its steps.
C34_AtomicWrites ==
    [][\A c \in FileCallers :
          (mux[c].op \in LookupOps /\ mux[c].pc = "locked" /\ mux'[c].pc = "ran")
             => \A x \in FileCallers : mux[x].pc # "writing"]_vars

\* a lookup by the peer ID waits for s.mux while SaveAccount has stored the
\* account and not yet its index entries
C34_Witness ==
    /\ mux["c1"].pc = "writing"
    /\ mux["c1"].op = "SaveAccount"
    /\ mux["c2"].pc = "calling"
    /\ mux["c2"].op = "GetAccountByPeerID"
    /\ "a1" \in DOMAIN Accounts
    /\ "p1" \in DOMAIN Accounts["a1"].Peers
    /\ "p1" \notin DOMAIN PeerID2AccountID

\* C35: When the write of the store file fails in SaveAccount or in
\* DeleteAccount, the call returns the error and the account map and the
\* index maps are as they were before the call.
C35_FailedSaveUnchanged ==
    [][(last'.op \in {"SaveAccount", "DeleteAccount"} /\ last'.err = IOError)
          => UNCHANGED <<Accounts, indices>>]_vars

\* C36: right after restore every entry of every index maps its key to a
\* stored account that has the entity with that key, and every setup key, peer
\* key, peer ID, user ID and token of every account has its entry; so after
\* the migration of peers without an ID the peer-ID index has no entry for the
\* empty ID.
C36_IndicesRebuilt ==
    last.op = "restore" =>
       /\ \A k \in DOMAIN SetupKeyID2AccountID :
             /\ SetupKeyID2AccountID[k] \in DOMAIN Accounts
             /\ \E sk \in Accounts[SetupKeyID2AccountID[k]].SetupKeys : ToUpper(sk) = k
       /\ \A k \in DOMAIN PeerKeyID2AccountID :
             /\ PeerKeyID2AccountID[k] \in DOMAIN Accounts
             /\ \E p \in PeersOf(Accounts[PeerKeyID2AccountID[k]]) : p.Key = k
       /\ \A k \in DOMAIN PeerID2AccountID :
             /\ PeerID2AccountID[k] \in DOMAIN Accounts
             /\ \E p \in PeersOf(Accounts[PeerID2AccountID[k]]) : p.ID = k
       /\ \A k \in DOMAIN UserID2AccountID :
             /\ UserID2AccountID[k] \in DOMAIN Accounts
             /\ \E u \in UsersOf(Accounts[UserID2AccountID[k]]) : u.Id = k
       /\ \A k \in DOMAIN TokenID2UserID :
             \E a \in DOMAIN Accounts : \E up \in UserPATs(Accounts[a]) :
                up[1].Id = TokenID2UserID[k] /\ up[2].ID = k
       /\ \A k \in DOMAIN HashedPAT2TokenID :
             \E a \in DOMAIN Accounts : \E up \in UserPATs(Accounts[a]) :
                up[2].HashedToken = k /\ up[2].ID = HashedPAT2TokenID[k]
       /\ \A k \in DOMAIN PrivateDomain2AccountID :
             /\ PrivateDomain2AccountID[k] \in DOMAIN Accounts
             /\ Accounts[PrivateDomain2AccountID[k]].Domain = k
       /\ \A a \in DOMAIN Accounts :
             /\ \A sk \in Accounts[a].SetupKeys : ToUpper(sk) \in DOMAIN SetupKeyID2AccountID
             /\ \A p \in PeersOf(Accounts[a]) :
                   p.Key \in DOMAIN PeerKeyID2AccountID /\ p.ID \in DOMAIN PeerID2AccountID
             /\ \A u \in UsersOf(Accounts[a]) : u.Id \in DOMAIN UserID2AccountID
             /\ \A up \in UserPATs(Accounts[a]) :
                   /\ up[2].ID \in DOMAIN TokenID2UserID
                   /\ up[2].HashedToken \in DOMAIN HashedPAT2TokenID
       /\ "" \notin DOMAIN PeerID2AccountID

\* C37: For every account that SaveAccount saved as the primary account of a
\* private domain D, GetAccountByPrivateDomain(D) returns the account,
\* whatever the letter case of D; and the lookup of a domain returns after a
\* restart what it returned before it, as SaveAccount and restore index the
\* same accounts under the same keys.
C37_PrivateDomainLookup ==
    [][/\ last'.op = "SaveAccount" =>
             \A account \in AccountInputs(profile), ok \in BOOLEAN :
                (/\ SaveAccount(account, ok)
                 /\ last'.err = OK
                 /\ account.DomainCategory = PrivateCategory
                 /\ account.IsDomainPrimaryAccount)
                   => GetAccountByPrivateDomainResult(account.Domain)' = Found(account.Id)
       /\ last'.op = "restore" =>
             \A domain \in Domains \cup {<<>>} :
                GetAccountByPrivateDomainResult(domain)' =
                   GetAccountByPrivateDomainResult(domain)]_vars

\* the policy that the handler gave to toPolicyResponse: the one it saved, or
\* the one the account manager returned
Converted == IF http.request.handler = "GetPolicy" THEN http.request.stored[1]
             ELSE http.saved[1]

\* the IDs of the listed groups
ListedIDs(minimums) == {minimums[i].Id : i \in DOMAIN minimums}

\* the IDs of a rule's groups that are groups of the account
KnownIDs(gids) == {gids[i] : i \in DOMAIN gids} \cap DOMAIN http.account.Groups

\* a rule of a request that savePolicy is to accept
ValidRule(r) ==
    /\ r.Action \in PolicyRuleActions
    /\ r.Protocol \in PortlessProtocols \cup PortProtocols
    /\ \A i \in DOMAIN r.Ports : ~Atoi(r.Ports[i]).err /\ Atoi(r.Ports[i]).port \in 1..65535
    /\ r.Protocol \in PortlessProtocols => (r.Ports = <<>> /\ r.Bidirectional)
    /\ (r.Protocol \in PortProtocols /\ ~r.Bidirectional) => r.Ports # <<>>

\* C38: savePolicy saves a policy only when the request has a name and at
\* least one rule, and every rule has a known action and a known protocol,
\* ports that parse to integers of 1..65535, no ports and both directions when
\* its protocol is ALL or ICMP, and a port when it is a rule of one direction
\* for TCP or UDP; otherwise the response is an error and nothing is saved.
\* UpdatePolicy for a policy ID of the path that is none of the account's
\* policies responds NotFound and saves nothing.
C38_ValidatedBeforeSave ==
    (http.request.handler \in {"CreatePolicy", "UpdatePolicy"} /\ http.response # NoResponse) =>
       LET req == http.request.body
           valid == /\ http.request.parses
                    /\ req.Name # ""
                    /\ req.Rules # <<>>
                    /\ \A i \in DOMAIN req.Rules : ValidRule(req.Rules[i])
       IN /\ http.saved # <<>> => valid
          /\ ~valid => (http.response.status # OK /\ http.response.body = <<>>)
          /\ (/\ http.request.handler = "UpdatePolicy"
              /\ http.request.policyID # ""
              /\ http.request.policyID \notin http.account.Policies
              /\ http.response.status # PermissionDenied)
                => (http.response.status = NotFound /\ http.saved = <<>>)

\* UpdatePolicy has saved a policy of two rules, the second a rule of one
\* direction for TCP with a port
C38_Witness ==
    /\ http.request.handler = "UpdatePolicy"
    /\ http.response.status = OK
    /\ http.saved # <<>>
    /\ Len(http.saved[1].Rules) = 2
    /\ http.saved[1].Rules[2].Protocol = "tcp"
    /\ ~http.saved[1].Rules[2].Bidirectional
    /\ http.saved[1].Rules[2].Ports = <<<<56, 48>>>>

\* C39: toPolicyResponse reports the groups of each rule apart from the other
\* rules: the sources and the destinations of every rule of the response are
\* the rule's groups that are groups of the account, those that an earlier
\* rule or the other side of the rule lists too; IDs of no group are left out.
C39_RuleGroupsIndependent ==
    http.response.body # <<>> =>
       LET resp == http.response.body[1] IN
       /\ Len(resp.Rules) = Len(Converted.Rules)
       /\ \A i \in DOMAIN Converted.Rules :
             /\ ListedIDs(resp.Rules[i].Sources) = KnownIDs(Converted.Rules[i].Sources)
             /\ ListedIDs(resp.Rules[i].Destinations) =
                   KnownIDs(Converted.Rules[i].Destinations)

====
